---- MODULE Spec2Model ----
(***************************************************************************)
(* Model of the property search / detail / calendar / owner-listing        *)
(* backend (controllers/propertyController.ts, services/propertyQuery.ts,  *)
(* services/propertyValidation.ts).                                        *)
(*                                                                         *)
(* Time is a line of integer instants.  Only the order of instants matters *)
(* to the code (every date test is a comparison), so the instants of the   *)
(* model stand for the order-relevant points of the real time line.        *)
(*                                                                         *)
(* Raw request parameters are strings, modelled as sequences of one        *)
(* character strings; an absent parameter is JavaScript's undefined.       *)
(***************************************************************************)
EXTENDS Integers, Sequences, FiniteSets, TLC

VARIABLES
    properties,             \* store table: properties
    rooms,                  \* store table: rooms
    bookings,               \* store table: bookings
    room_unavailabilities,  \* store table: room_unavailabilities
    peak_season_rates,      \* store table: peak_season_rates
    property_categories,    \* store table: property_categories
    handler,                \* the controller function handling the request
    pc,                     \* its position: "idle", "await", "done"
    query,                  \* req.query / req.params / req.body as received
    today,                  \* start of the current day when validation ran
    validatedParams,        \* what the validate* function returned
    whereClause,            \* what buildWhereClause returned (search only)
    storeCalls,             \* store operations issued by this request
    totalCount,             \* getUserProperties' totalCount, once counted
    fetched,                \* what the awaited store query resolved to
    processedProperties,    \* searchProperties' processedProperties list
    responses               \* responses sent on res by this request

storeVars == <<properties, rooms, bookings, room_unavailabilities,
               peak_season_rates, property_categories>>
reqVars == <<handler, pc, query, today, validatedParams, whereClause,
             storeCalls, totalCount, fetched, processedProperties, responses>>
vars == <<storeVars, reqVars>>

-----------------------------------------------------------------------------
(* Bounds of the model.                                                    *)

\* Instants are 0 .. MaxDate.
MaxDate == 4
\* Guest counts and room capacities are 1 .. MaxGuests.
MaxGuests == 2
\* Page numbers requested are up to MaxPage.
MaxPage == 3
\* The number of instants the model gives to one calendar month.
MonthLen == 3

Instants == 0 .. MaxDate

-----------------------------------------------------------------------------
(* JavaScript values.                                                      *)

\* A JavaScript number (or the time value of a Date): NaN, or an integer.
NaN == [nan |-> TRUE, v |-> 0]
Num(n) == [nan |-> FALSE, v |-> n]

\* Relational operators on numbers and Dates: every comparison with NaN
\* (an Invalid Date) is false.
Lt(a, b) == ~a.nan /\ ~b.nan /\ a.v < b.v
Gt(a, b) == ~a.nan /\ ~b.nan /\ a.v > b.v
Lte(a, b) == ~a.nan /\ ~b.nan /\ a.v <= b.v
Gte(a, b) == ~a.nan /\ ~b.nan /\ a.v >= b.v

\* undefined, and a string value.
Undefined == [set |-> FALSE, str |-> <<>>]
Str(s) == [set |-> TRUE, str |-> s]

\* !x for a string-or-undefined x: undefined and "" are falsy.
Falsy(x) == ~x.set \/ x.str = <<>>

Digits == {"0", "1", "2", "3", "4", "5", "6", "7", "8", "9"}
DigitValue(c) ==
    CASE c = "0" -> 0 [] c = "1" -> 1 [] c = "2" -> 2 [] c = "3" -> 3
      [] c = "4" -> 4 [] c = "5" -> 5 [] c = "6" -> 6 [] c = "7" -> 7
      [] c = "8" -> 8 [] c = "9" -> 9

WhiteSpace == {" "}

RECURSIVE TrimStart(_)
TrimStart(s) ==
    IF s # <<>> /\ Head(s) \in WhiteSpace THEN TrimStart(Tail(s)) ELSE s

RECURSIVE TrimEnd(_)
TrimEnd(s) ==
    IF s # <<>> /\ s[Len(s)] \in WhiteSpace
    THEN TrimEnd(SubSeq(s, 1, Len(s) - 1))
    ELSE s

\* String.prototype.trim
Trim(s) == TrimEnd(TrimStart(s))

\* The longest prefix of s made of digits.
RECURSIVE DigitPrefix(_)
DigitPrefix(s) ==
    IF s # <<>> /\ Head(s) \in Digits
    THEN <<Head(s)>> \o DigitPrefix(Tail(s))
    ELSE <<>>

RECURSIVE DigitsValue(_)
DigitsValue(s) ==
    IF s = <<>> THEN 0
    ELSE 10 * DigitsValue(SubSeq(s, 1, Len(s) - 1)) + DigitValue(s[Len(s)])

\* parseInt(x): leading white space is skipped, an optional sign is read,
\* then the longest run of digits; NaN when there is no digit (and for
\* undefined, which parseInt reads as the string "undefined").
ParseInt(x) ==
    IF ~x.set THEN NaN
    ELSE LET t == TrimStart(x.str)
             neg == t # <<>> /\ Head(t) = "-"
             u == IF t # <<>> /\ Head(t) \in {"-", "+"} THEN Tail(t) ELSE t
             d == DigitPrefix(u)
         IN  IF d = <<>> THEN NaN
             ELSE Num(IF neg THEN 0 - DigitsValue(d) ELSE DigitsValue(d))

\* The date string that denotes instant t: "T" followed by t in decimal.
RECURSIVE Decimal(_)
Decimal(n) ==
    IF n < 10 THEN <<ToString(n)>>
    ELSE Decimal(n \div 10) \o <<ToString(n % 10)>>

DateString(t) == <<"T">> \o Decimal(t)

\* new Date(x): the instant a well-formed date string denotes, otherwise an
\* Invalid Date (time value NaN).
NewDate(x) ==
    IF ~x.set THEN NaN
    ELSE LET s == x.str
         IN  IF Len(s) >= 2 /\ Head(s) = "T" /\ DigitPrefix(Tail(s)) = Tail(s)
             THEN Num(DigitsValue(Tail(s)))
             ELSE NaN

LowerCase(c) ==
    CASE c = "V" -> "v" [] c = "H" -> "h" [] OTHER -> c

\* String.prototype.toLowerCase, as the case-insensitive store filters use.
ToLower(s) == [i \in 1 .. Len(s) |-> LowerCase(s[i])]

\* s contains t as a substring.
Contains(s, t) ==
    \E i \in 0 .. (Len(s) - Len(t)) : SubSeq(s, i + 1, i + Len(t)) = t

\* String.prototype.split(","): the pieces between the commas.
RECURSIVE Split(_)
Split(s) ==
    IF \A i \in 1 .. Len(s) : s[i] # ","
    THEN <<s>>
    ELSE LET i == CHOOSE k \in 1 .. Len(s) :
                     s[k] = "," /\ \A j \in 1 .. (k - 1) : s[j] # ","
         IN  <<SubSeq(s, 1, i - 1)>> \o Split(SubSeq(s, i + 1, Len(s)))

-----------------------------------------------------------------------------
(* The store: the relational tables the queries read.                      *)

\* SQL NULL in a nullable integer column (ids are positive).
NullId == 0
\* SQL NULL in a nullable text column, and req.user being absent.
NullText == "null"

\* bookings.status_id of a canceled booking.
StatusCanceled == 1
\* Some other booking status.
StatusConfirmed == 2

Villa == <<"V", "i", "l", "l", "a">>
Villas == <<"V", "i", "l", "l", "a", "s">>
Hotel == <<"H", "o", "t", "e", "l">>

BaseCategories ==
    { [id |-> 1, name |-> Villa, tenant_id |-> NullText],
      [id |-> 2, name |-> Hotel, tenant_id |-> NullText],
      [id |-> 3, name |-> Villas, tenant_id |-> "t1"],
      [id |-> 4, name |-> Hotel, tenant_id |-> "t2"],
      [id |-> 5, name |-> Villas, tenant_id |-> NullText],
      [id |-> 6, name |-> Hotel, tenant_id |-> "t1"] }

Property(id, name, city, cat, tenant) ==
    [id |-> id, name |-> name, city_id |-> city, category_id |-> cat,
     tenant_id |-> tenant, created_at |-> id]

\* Properties 1-5 and 7-9 are in city 1, property 6 in city 2.  Property 2
\* has only a room of quantity 0, property 5 has no room at all, property 4
\* has no category.
BaseProperties ==
    { Property(1, <<"V", "a">>, 1, 1, "t1"),
      Property(2, <<"V", "b">>, 1, 3, "t1"),
      Property(3, <<"H", "a">>, 1, 2, "t2"),
      Property(4, <<"h", "b">>, 1, NullId, "t2"),
      Property(5, <<"V", "c">>, 1, 1, "t2"),
      Property(6, <<"H", "c">>, 2, 2, "t2"),
      Property(7, <<"a", "a">>, 1, 2, "t2"),
      Property(8, <<"a", "b">>, 1, 2, "t2"),
      Property(9, <<"b", "a">>, 1, 3, "t2") }

Room(id, prop, guests, qty, price) ==
    [id |-> id, property_id |-> prop, max_guests |-> guests,
     quantity |-> qty, price |-> price]

BaseRooms ==
    { Room(1, 1, MaxGuests, 1, 50),
      Room(2, 1, 1, 2, 30),
      Room(3, 2, MaxGuests, 0, 10),
      Room(4, 3, MaxGuests, 1, 20),
      Room(5, 4, 1, 1, 40),
      Room(6, 6, 1, 1, 60),
      Room(7, 7, MaxGuests, 3, 70),
      Room(8, 8, MaxGuests, 1, 25),
      Room(9, 9, MaxGuests, 1, 35),
      Room(10, 1, MaxGuests, 0, 15) }

\* Room 1 carries every booking the instants allow, canceled and not; room
\* 3 (quantity 0) and room 4 carry one each.
BaseBookings ==
    { [room_id |-> 1, check_in |-> d[1], check_out |-> d[2], status_id |-> s] :
        d \in {e \in Instants \X Instants : e[1] < e[2]},
        s \in {StatusCanceled, StatusConfirmed} }
    \cup { [room_id |-> 3, check_in |-> 0, check_out |-> MaxDate,
            status_id |-> StatusConfirmed],
           [room_id |-> 4, check_in |-> 0, check_out |-> MaxDate,
            status_id |-> StatusCanceled] }

BaseUnavailabilities ==
    { [room_id |-> 1, start_date |-> d[1], end_date |-> d[2]] :
        d \in {e \in Instants \X Instants : e[1] <= e[2]} }

BaseRates ==
    { [room_id |-> 1, start_date |-> d[1], end_date |-> d[2], price |-> 90] :
        d \in {e \in Instants \X Instants : e[1] <= e[2]} }

-----------------------------------------------------------------------------
(* services/propertyQuery.ts                                               *)

\* buildWhereClause using the exact "in" match for a single category too.
BuildWhereClauseAlwaysIn(params) ==
    [ city_id |-> params.cityId,
      rooms_some |-> [max_guests_gte |-> params.guestCount, quantity_gt |-> 0],
      name |-> IF Falsy(params.propertyName)
               THEN [op |-> "none", arg |-> <<>>]
               ELSE [op |-> "contains", arg |-> <<params.propertyName.str>>],
      property_categories |->
          IF Falsy(params.categoryName)
          THEN [op |-> "none", arg |-> <<>>]
          ELSE [op |-> "in",
                arg |-> [i \in 1 .. Len(Split(params.categoryName.str)) |->
                            Trim(Split(params.categoryName.str)[i])]] ]

\* buildWhereClause: the filter object handed to properties.findMany.
BuildWhereClause(params) ==
    [ city_id |-> params.cityId,
      rooms_some |-> [max_guests_gte |-> params.guestCount, quantity_gt |-> 0],
      name |-> IF Falsy(params.propertyName)
               THEN [op |-> "none", arg |-> <<>>]
               ELSE [op |-> "contains", arg |-> <<params.propertyName.str>>],
      property_categories |->
          IF Falsy(params.categoryName)
          THEN [op |-> "none", arg |-> <<>>]
          ELSE LET categories ==
                       [i \in 1 .. Len(Split(params.categoryName.str)) |->
                            Trim(Split(params.categoryName.str)[i])]
               IN  IF Len(categories) = 1
                   THEN [op |-> "contains", arg |-> <<categories[1]>>]
                   ELSE [op |-> "in", arg |-> categories] ]

\* A string filter with mode "insensitive" applied to a column value.
StringFilter(f, value) ==
    CASE f.op = "none" -> TRUE
      [] f.op = "contains" -> Contains(ToLower(value), ToLower(f.arg[1]))
      [] f.op = "in" ->
            \E i \in 1 .. Len(f.arg) : ToLower(value) = ToLower(f.arg[i])

\* RoomsSome without the quantity condition.
RoomsSomeAnyQuantity(f, room) ==
    Gte(Num(room.max_guests), f.max_guests_gte)

\* The rooms.some condition of the where clause, on one room.
RoomsSome(f, room) ==
    /\ Gte(Num(room.max_guests), f.max_guests_gte)
    /\ room.quantity > f.quantity_gt

\* A property satisfies the where clause.  A filter on the category relation
\* holds only of a property that has a category.
MatchesWhere(wc, p) ==
    /\ ~wc.city_id.nan /\ p.city_id = wc.city_id.v
    /\ \E r \in rooms : r.property_id = p.id /\ RoomsSome(wc.rooms_some, r)
    /\ StringFilter(wc.name, p.name)
    /\ \/ wc.property_categories.op = "none"
       \/ \E c \in property_categories :
             /\ c.id = p.category_id
             /\ StringFilter(wc.property_categories, c.name)

\* The name of a property's category, null when it has none.
CategoryOf(p) ==
    IF \E c \in property_categories : c.id = p.category_id
    THEN [name |-> (CHOOSE c \in property_categories : c.id = p.category_id).name]
    ELSE [name |-> <<NullText>>]

\* A set of records as the sequence in ascending id order (the order the
\* store returns rows in when the query gives no orderBy).
RECURSIVE ById(_)
ById(S) ==
    IF S = {} THEN <<>>
    ELSE LET m == CHOOSE x \in S : \A y \in S : x.id <= y.id
         IN  <<m>> \o ById(S \ {m})

\* A room with the relations a query includes.
RoomWithRelations(room, bs, us, rs) ==
    [ id |-> room.id, property_id |-> room.property_id,
      max_guests |-> room.max_guests, quantity |-> room.quantity,
      price |-> room.price, bookings |-> bs, room_unavailabilities |-> us,
      peak_season_rates |-> rs ]

\* getAvailableProperties: the where of the rooms include.
SearchRoomIncluded(room, guestCount) ==
    /\ Gte(Num(room.max_guests), guestCount)
    /\ room.quantity > 0

\* SearchBookingIncluded with closed bounds (lte / gte for lt / gt).
SearchBookingIncludedClosed(b, checkInDate, checkOutDate) ==
    /\ b.status_id # StatusCanceled
    /\ Lte(Num(b.check_in), checkOutDate)
    /\ Gte(Num(b.check_out), checkInDate)

\* getAvailableProperties: the where of the bookings include.
SearchBookingIncluded(b, checkInDate, checkOutDate) ==
    /\ b.status_id # StatusCanceled
    /\ Lt(Num(b.check_in), checkOutDate)
    /\ Gt(Num(b.check_out), checkInDate)

\* SearchUnavailabilityIncluded with a closed end (gte for gt).
SearchUnavailabilityIncludedClosedEnd(u, checkInDate, checkOutDate) ==
    /\ Lt(Num(u.start_date), checkOutDate)
    /\ Gte(Num(u.end_date), checkInDate)

\* getAvailableProperties: the where of the room_unavailabilities include.
SearchUnavailabilityIncluded(u, checkInDate, checkOutDate) ==
    /\ Lt(Num(u.start_date), checkOutDate)
    /\ Gt(Num(u.end_date), checkInDate)

\* getAvailableProperties: the where of the peak_season_rates include.
SearchRateIncluded(r, checkInDate, checkOutDate) ==
    /\ Lte(Num(r.start_date), checkOutDate)
    /\ Gte(Num(r.end_date), checkInDate)

\* One property as getAvailableProperties returns it: its category and the
\* included rooms, each with its included relations.
SearchPropertyWithRooms(p, guestCount, checkInDate, checkOutDate) ==
    [ id |-> p.id, name |-> p.name, property_categories |-> CategoryOf(p),
      rooms |-> ById({
          RoomWithRelations(room,
              {b \in bookings :
                  b.room_id = room.id
                  /\ SearchBookingIncluded(b, checkInDate, checkOutDate)},
              {u \in room_unavailabilities :
                  u.room_id = room.id
                  /\ SearchUnavailabilityIncluded(u, checkInDate, checkOutDate)},
              {r \in peak_season_rates :
                  r.room_id = room.id
                  /\ SearchRateIncluded(r, checkInDate, checkOutDate)}) :
          room \in {x \in rooms : x.property_id = p.id
                                  /\ SearchRoomIncluded(x, guestCount)} }) ]

\* getAvailableProperties
GetAvailableProperties(wc, params) ==
    LET found == ById({p \in properties : MatchesWhere(wc, p)})
    IN  [i \in 1 .. Len(found) |->
            SearchPropertyWithRooms(found[i], params.guestCount,
                                    params.checkInDate, params.checkOutDate)]

\* DetailRoomIncluded without the quantity condition.
DetailRoomIncludedAnyQuantity(room, guestCount) ==
    Gte(Num(room.max_guests), guestCount)

\* getPropertyDetail: the where of the rooms include.
DetailRoomIncluded(room, guestCount) ==
    /\ Gte(Num(room.max_guests), guestCount)
    /\ room.quantity > 0

\* getPropertyDetail: the where of the bookings include.
DetailBookingIncluded(b, checkInDate, checkOutDate) ==
    /\ b.status_id # StatusCanceled
    /\ Lt(Num(b.check_in), checkOutDate)
    /\ Gt(Num(b.check_out), checkInDate)

\* getPropertyDetail: the where of the room_unavailabilities include.
DetailUnavailabilityIncluded(u, checkInDate, checkOutDate) ==
    /\ Lt(Num(u.start_date), checkOutDate)
    /\ Gt(Num(u.end_date), checkInDate)

\* getPropertyDetail: the where of the peak_season_rates include.
DetailRateIncluded(r, checkInDate, checkOutDate) ==
    /\ Lte(Num(r.start_date), checkOutDate)
    /\ Gte(Num(r.end_date), checkInDate)

\* getPropertyDetail: the property of that id, or none (a sequence of length
\* 0 or 1).
GetPropertyDetail(params) ==
    LET found == ById({p \in properties : ~params.propertyId.nan
                                          /\ p.id = params.propertyId.v})
    IN  [i \in 1 .. Len(found) |->
          [ id |-> found[i].id, name |-> found[i].name,
            property_categories |-> CategoryOf(found[i]),
            rooms |-> ById({
              RoomWithRelations(room,
                  {b \in bookings :
                      b.room_id = room.id
                      /\ DetailBookingIncluded(b, params.checkInDate,
                                               params.checkOutDate)},
                  {u \in room_unavailabilities :
                      u.room_id = room.id
                      /\ DetailUnavailabilityIncluded(u, params.checkInDate,
                                                      params.checkOutDate)},
                  {r \in peak_season_rates :
                      r.room_id = room.id
                      /\ DetailRateIncluded(r, params.checkInDate,
                                            params.checkOutDate)}) :
              room \in {x \in rooms : x.property_id = found[i].id
                                      /\ DetailRoomIncluded(x, params.guestCount)} }) ]]

\* The first year validateCalendarParams accepts; instant 0 of the model is
\* the first instant of January of that year.
MinYear == 2020
MaxYear == 2030

\* new Date(year, month - 1, 1): the first instant of the month.
MonthStartDate(year, month) ==
    ((year - MinYear) * 12 + (month - 1)) * MonthLen

\* new Date(year, month, 0, 23, 59, 59): the last second of the month's last
\* day.  One instant of the model lies between it and the next month.
MonthEndDate(year, month) == MonthStartDate(year, month) + MonthLen - 2

\* CalendarDateFilter with the first condition alone (start inside the
\* month).
CalendarDateFilterStartInside(s, e, startDate, endDate) ==
    s >= startDate /\ s <= endDate

\* The OR of the calendar query's three date conditions, for a record that
\* starts at s and ends at e.
CalendarDateFilter(s, e, startDate, endDate) ==
    \/ (s >= startDate /\ s <= endDate)
    \/ (e >= startDate /\ e <= endDate)
    \/ (s <= startDate /\ e >= endDate)

\* CalendarBookingIncluded without the status condition.
CalendarBookingIncludedAnyStatus(b, startDate, endDate) ==
    CalendarDateFilter(b.check_in, b.check_out, startDate, endDate)

\* The bookings filter of the calendar include.
CalendarBookingIncluded(b, startDate, endDate) ==
    /\ b.status_id # StatusCanceled
    /\ CalendarDateFilter(b.check_in, b.check_out, startDate, endDate)

\* getPropertyForCalendar: the property of that id with its rooms of
\* positive quantity, or none (a sequence of length 0 or 1).
GetPropertyForCalendar(propertyId, year, month) ==
    LET startDate == MonthStartDate(year, month)
        endDate == MonthEndDate(year, month)
        found == ById({p \in properties : p.id = propertyId})
    IN  [i \in 1 .. Len(found) |->
          [ id |-> found[i].id, name |-> found[i].name,
            rooms |-> ById({
              RoomWithRelations(room,
                  {b \in bookings :
                      b.room_id = room.id
                      /\ CalendarBookingIncluded(b, startDate, endDate)},
                  {u \in room_unavailabilities :
                      u.room_id = room.id
                      /\ CalendarDateFilter(u.start_date, u.end_date,
                                            startDate, endDate)},
                  {r \in peak_season_rates :
                      r.room_id = room.id
                      /\ CalendarDateFilter(r.start_date, r.end_date,
                                            startDate, endDate)}) :
              room \in {x \in rooms : x.property_id = found[i].id
                                      /\ x.quantity > 0} }) ]]

\* n copies of the character c.
Repeat(c, n) == [i \in 1 .. n |-> c]

\* The value of the uuid column tenant_id for a tenant of the model: tenant
\* "t3" has 00000003-0000-4000-8000-000000000000.
TenantUuid(t) ==
    Repeat("0", 7)
    \o <<CASE t = "t1" -> "1" [] t = "t2" -> "2" [] t = "t3" -> "3">>
    \o <<"-">>
    \o Repeat("0", 4) \o <<"-", "4">> \o Repeat("0", 3) \o <<"-", "8">>
    \o Repeat("0", 3) \o <<"-">> \o Repeat("0", 12)

\* CategoryVisible showing every tenant's categories once a tenant id is
\* given.
CategoryVisibleAnyTenant(c, tenantId) ==
    \/ c.tenant_id = NullText
    \/ ~Falsy(tenantId)

\* The where clause of getPropertyCategories on one category: the tenant
\* reference is null, or, when a tenant id is given, equals it.
CategoryVisible(c, tenantId) ==
    \/ c.tenant_id = NullText
    \/ /\ ~Falsy(tenantId)
       /\ c.tenant_id # NullText
       /\ TenantUuid(c.tenant_id) = tenantId.str

\* getPropertyCategories: the visible categories ordered by tenant_id
\* ascending, then id ascending.  The non-null tenant references of the
\* result are all equal, so the first key only separates the null group
\* from the other; where an ascending order puts NULL is the database's
\* choice (nullsFirst).
GetPropertyCategories(params, nullsFirst) ==
    LET found == {c \in property_categories :
                     CategoryVisible(c, params.tenantId)}
        nulls == ById({c \in found : c.tenant_id = NullText})
        others == ById({c \in found : c.tenant_id # NullText})
    IN  IF nullsFirst THEN nulls \o others ELSE others \o nulls

\* limit of getUserProperties: the page size of the owner listing.
Limit == 5

\* prisma.properties.count of getUserProperties.
CountUserProperties(userId) ==
    Cardinality({p \in properties : p.tenant_id = userId})

\* NewestFirst in ascending order instead.
OldestFirst(S) == ById(S)

\* A set of properties as the sequence in descending created_at order.
RECURSIVE NewestFirst(_)
NewestFirst(S) ==
    IF S = {} THEN <<>>
    ELSE LET m == CHOOSE x \in S :
                     \A y \in S : x.created_at > y.created_at
                                  \/ (x.created_at = y.created_at /\ x.id <= y.id)
         IN  <<m>> \o NewestFirst(S \ {m})

\* prisma.properties.findMany of getUserProperties: the page of the user's
\* properties, each with its rooms.
FindUserProperties(userId, page) ==
    LET offset == (page - 1) * Limit
        all == NewestFirst({p \in properties : p.tenant_id = userId})
        rows == SubSeq(all, offset + 1,
                       IF offset + Limit < Len(all) THEN offset + Limit
                       ELSE Len(all))
    IN  [i \in 1 .. Len(rows) |->
            [ id |-> rows[i].id, name |-> rows[i].name,
              tenant_id |-> rows[i].tenant_id,
              created_at |-> rows[i].created_at,
              property_categories |-> CategoryOf(rows[i]),
              rooms |-> ById({r \in rooms : r.property_id = rows[i].id}) ]]

\* Math.floor in place of Math.ceil.
Floor(n, d) == n \div d

\* Math.ceil(n / d) for n >= 0, d > 0.
Ceil(n, d) == (n + d - 1) \div d

\* What getUserProperties returns, from the count and the page it read.
UserPropertiesResult(count, data, page) ==
    LET totalPages == Ceil(count, Limit)
    IN  [ data |-> data,
          pagination |->
            [ current_page |-> page, total_pages |-> totalPages,
              total_items |-> count, items_per_page |-> Limit,
              has_next_page |-> page < totalPages,
              has_previous_page |-> page > 1 ] ]

\* An optional number of the validated create parameters: undefined, or n.
NoNumber == [set |-> FALSE, v |-> 0]
SomeNumber(n) == [set |-> TRUE, v |-> n]

\* x || null for an optional number x: undefined and 0 become null.
OrNull(x) == IF x.set /\ x.v # 0 THEN x.v ELSE NullId

\* NewProperty keeping a category reference only when the category exists.
NewPropertyExistingCategory(params, tenantId) ==
    LET id == 1 + CHOOSE m \in {0} \cup {p.id : p \in properties} :
                     \A p \in properties : p.id <= m
        categoryId == OrNull(params.categoryId)
    IN  Property(id, params.name, OrNull(params.cityId),
                 IF \E c \in property_categories : c.id = categoryId
                 THEN categoryId ELSE NullId,
                 tenantId)

\* The row prisma.properties.create inserts: the next id, created now (after
\* every row there is), owned by tenantId.
NewProperty(params, tenantId) ==
    LET id == 1 + CHOOSE m \in {0} \cup {p.id : p \in properties} :
                     \A p \in properties : p.id <= m
    IN  Property(id, params.name, OrNull(params.cityId),
                 OrNull(params.categoryId), tenantId)

\* CreateProperty inserting the row twice (under two ids).
CreatePropertyTwice(params, tenantId) ==
    LET row == NewProperty(params, tenantId)
    IN  properties \cup {row, [row EXCEPT !.id = row.id + 1,
                                          !.created_at = row.id + 1]}

\* createProperty: the properties table after the insert.  Whether the
\* store accepts a category or city reference without a target is the
\* store's matter; a rejection is a store failure.
CreateProperty(params, tenantId) ==
    properties \cup {NewProperty(params, tenantId)}

-----------------------------------------------------------------------------
(* services/propertyValidation.ts                                          *)

\* What a validate* function returns when it rejects: null.
Null == [ok |-> FALSE]

\* A response sent on res: res.status(status).json({message, ...}).
Response(kind, message, data) ==
    [kind |-> kind, message |-> message, data |-> data]

ValidationError(message) == Response("validation_error", message, <<>>)

\* The sort keys and orders validateSearchParams accepts.
SortByName == <<"n", "a", "m", "e">>
SortByPrice == <<"p", "r", "i", "c", "e">>
SortAsc == <<"a", "s", "c">>
SortDesc == <<"d", "e", "s", "c">>

\* parseInt(page) || 1: NaN and 0 are falsy.
PageNumberOf(page) ==
    LET n == ParseInt(page) IN IF n.nan \/ n.v = 0 THEN 1 ELSE n.v

\* validateSearchParams accepting check_in equal to check_out (> for >=).
ValidateSearchParamsStrict(q, todayStart) ==
    LET pageNumber == PageNumberOf(q.page)
        cityId == ParseInt(q.city_id)
        guestCount == ParseInt(q.guests)
        checkInDate == NewDate(q.check_in)
        checkOutDate == NewDate(q.check_out)
        reject(m) == [params |-> Null, sent |-> <<ValidationError(m)>>]
    IN  IF Falsy(q.city_id) \/ Falsy(q.check_in) \/ Falsy(q.check_out)
           \/ Falsy(q.guests)
        THEN reject("required")
        ELSE IF pageNumber < 1
        THEN reject("page")
        ELSE IF ~Falsy(q.sort_by) /\ q.sort_by.str \notin {SortByName, SortByPrice}
        THEN reject("sort_by")
        ELSE IF ~Falsy(q.sort_order) /\ q.sort_order.str \notin {SortAsc, SortDesc}
        THEN reject("sort_order")
        ELSE IF Gt(checkInDate, checkOutDate)
        THEN reject("date_order")
        ELSE IF Lt(checkInDate, Num(todayStart))
        THEN reject("date_past")
        ELSE [ params |->
                 [ ok |-> TRUE, cityId |-> cityId, checkInDate |-> checkInDate,
                   checkOutDate |-> checkOutDate, guestCount |-> guestCount,
                   pageNumber |-> pageNumber, propertyName |-> q.property_name,
                   categoryName |-> q.category_name, sortBy |-> q.sort_by,
                   sortOrder |-> q.sort_order ],
               sent |-> <<>> ]

\* validateSearchParams(req.query, res) with the current day starting at
\* todayStart: the validated parameters or null, and the response sent.
ValidateSearchParams(q, todayStart) ==
    LET pageNumber == PageNumberOf(q.page)
        cityId == ParseInt(q.city_id)
        guestCount == ParseInt(q.guests)
        checkInDate == NewDate(q.check_in)
        checkOutDate == NewDate(q.check_out)
        reject(m) == [params |-> Null, sent |-> <<ValidationError(m)>>]
    IN  IF Falsy(q.city_id) \/ Falsy(q.check_in) \/ Falsy(q.check_out)
           \/ Falsy(q.guests)
        THEN reject("required")
        ELSE IF pageNumber < 1
        THEN reject("page")
        ELSE IF ~Falsy(q.sort_by) /\ q.sort_by.str \notin {SortByName, SortByPrice}
        THEN reject("sort_by")
        ELSE IF ~Falsy(q.sort_order) /\ q.sort_order.str \notin {SortAsc, SortDesc}
        THEN reject("sort_order")
        ELSE IF Gte(checkInDate, checkOutDate)
        THEN reject("date_order")
        ELSE IF Lt(checkInDate, Num(todayStart))
        THEN reject("date_past")
        ELSE [ params |->
                 [ ok |-> TRUE, cityId |-> cityId, checkInDate |-> checkInDate,
                   checkOutDate |-> checkOutDate, guestCount |-> guestCount,
                   pageNumber |-> pageNumber, propertyName |-> q.property_name,
                   categoryName |-> q.category_name, sortBy |-> q.sort_by,
                   sortOrder |-> q.sort_order ],
               sent |-> <<>> ]

\* validatePagination accepting every page.
ValidatePaginationAlways(pageNumber, totalPages) ==
    [ok |-> TRUE, sent |-> <<>>]

\* validatePagination: the page is rejected when it lies beyond the last.
ValidatePagination(pageNumber, totalPages) ==
    IF pageNumber > totalPages /\ totalPages > 0
    THEN [ok |-> FALSE, sent |-> <<ValidationError("page_range")>>]
    ELSE [ok |-> TRUE, sent |-> <<>>]

\* validateDetailParams(req.query, res)
ValidateDetailParams(q, todayStart) ==
    LET propertyId == ParseInt(q.property_id)
        guestCount == ParseInt(q.guests)
        checkInDate == NewDate(q.check_in)
        checkOutDate == NewDate(q.check_out)
        reject(m) == [params |-> Null, sent |-> <<ValidationError(m)>>]
    IN  IF Falsy(q.property_id) \/ Falsy(q.check_in) \/ Falsy(q.check_out)
           \/ Falsy(q.guests)
        THEN reject("required")
        ELSE IF propertyId.nan \/ propertyId.v <= 0
        THEN reject("property_id")
        ELSE IF guestCount.nan \/ guestCount.v <= 0
        THEN reject("guests")
        ELSE IF checkInDate.nan \/ checkOutDate.nan
        THEN reject("date_format")
        ELSE IF Gte(checkInDate, checkOutDate)
        THEN reject("date_order")
        ELSE IF Lt(checkInDate, Num(todayStart))
        THEN reject("date_past")
        ELSE [ params |->
                 [ ok |-> TRUE, propertyId |-> propertyId,
                   checkInDate |-> checkInDate, checkOutDate |-> checkOutDate,
                   guestCount |-> guestCount ],
               sent |-> <<>> ]

\* validateCalendarParams(req.query, req.params, res)
ValidateCalendarParams(q) ==
    LET parsedPropertyId == ParseInt(q.propertyId)
        parsedYear == ParseInt(q.year)
        parsedMonth == ParseInt(q.month)
        reject(m) == [params |-> Null, sent |-> <<ValidationError(m)>>]
    IN  IF parsedPropertyId.nan \/ parsedPropertyId.v <= 0
        THEN reject("property_id")
        ELSE IF parsedYear.nan \/ parsedYear.v < MinYear \/ parsedYear.v > MaxYear
        THEN reject("year")
        ELSE IF parsedMonth.nan \/ parsedMonth.v < 1 \/ parsedMonth.v > 12
        THEN reject("month")
        ELSE [ params |->
                 [ ok |-> TRUE, propertyId |-> parsedPropertyId.v,
                   year |-> parsedYear.v, month |-> parsedMonth.v ],
               sent |-> <<>> ]

HexDigits == Digits \cup {"a", "b", "c", "d", "e", "f"}
                     \cup {"A", "B", "C", "D", "E", "F"}

\* uuidRegex.test(s):
\* /^[0-9a-f]{8}-[0-9a-f]{4}-[1-5][0-9a-f]{3}-[89ab][0-9a-f]{3}-[0-9a-f]{12}$/i
IsUuid(s) ==
    /\ Len(s) = 36
    /\ \A i \in 1 .. 36 :
          IF i \in {9, 14, 19, 24} THEN s[i] = "-"
          ELSE IF i = 15 THEN s[i] \in {"1", "2", "3", "4", "5"}
          ELSE IF i = 20 THEN s[i] \in {"8", "9", "a", "b", "A", "B"}
          ELSE s[i] \in HexDigits

\* validateCategoryParams(req.query, res): tenant_id is optional and must be
\* a UUID when given.
ValidateCategoryParams(q) ==
    IF ~Falsy(q.tenant_id) /\ ~IsUuid(q.tenant_id.str)
    THEN [params |-> Null, sent |-> <<ValidationError("tenant_id")>>]
    ELSE [params |-> [ok |-> TRUE, tenantId |-> q.tenant_id], sent |-> <<>>]

\* validateCreatePropertyParams(req.body, res)
ValidateCreatePropertyParams(body) ==
    LET categoryId == ParseInt(body.category_id)
        cityId == ParseInt(body.city_id)
        reject(m) == [params |-> Null, sent |-> <<ValidationError(m)>>]
    IN  IF Falsy(body.name) \/ Falsy(body.description) \/ Falsy(body.location)
        THEN reject("required")
        ELSE IF Len(Trim(body.name.str)) < 3
        THEN reject("name")
        ELSE IF Len(Trim(body.description.str)) < 10
        THEN reject("description")
        ELSE IF Len(Trim(body.location.str)) < 3
        THEN reject("location")
        ELSE IF ~Falsy(body.category_id) /\ (categoryId.nan \/ categoryId.v <= 0)
        THEN reject("category_id")
        ELSE IF ~Falsy(body.city_id) /\ (cityId.nan \/ cityId.v <= 0)
        THEN reject("city_id")
        ELSE [ params |->
                 [ ok |-> TRUE, name |-> Trim(body.name.str),
                   description |-> Trim(body.description.str),
                   location |-> Trim(body.location.str),
                   categoryId |-> IF Falsy(body.category_id) THEN NoNumber
                                  ELSE SomeNumber(categoryId.v),
                   cityId |-> IF Falsy(body.city_id) THEN NoNumber
                              ELSE SomeNumber(cityId.v) ],
               sent |-> <<>> ]

\* validateMyPropertiesParams(req.query, res)
ValidateMyPropertiesParams(q) ==
    LET pageNumber == ParseInt(q.page)
    IN  IF ~Falsy(q.page) /\ (pageNumber.nan \/ pageNumber.v < 1)
        THEN [params |-> Null, sent |-> <<ValidationError("page")>>]
        ELSE [ params |-> [ok |-> TRUE,
                            page |-> IF Falsy(q.page) THEN 1 ELSE pageNumber.v],
               sent |-> <<>> ]

-----------------------------------------------------------------------------
(* services/propertyProcessor.ts and services/responseHelper.ts: the       *)
(* result shaping the controller calls.                                    *)

\* The fixed page size of search results.
PageSize == 5

\* processRoomsAvailability(property): the rooms of a fetched property that
\* are offered, those with a positive quantity.
ProcessRoomsAvailability(property) ==
    SelectSeq(property.rooms, LAMBDA r : r.quantity > 0)

\* The least price among rooms (the representative price of a property).
MinPrice(availableRooms) ==
    CHOOSE m \in {availableRooms[i].price : i \in 1 .. Len(availableRooms)} :
        \A i \in 1 .. Len(availableRooms) : m <= availableRooms[i].price

\* transformPropertyData(property, availableRooms)
TransformPropertyData(property, availableRooms) ==
    [ id |-> property.id, name |-> property.name,
      category |-> property.property_categories.name,
      available_rooms |-> availableRooms,
      price |-> MinPrice(availableRooms) ]

CharCode(c) ==
    CASE c = "H" -> 72 [] c = "V" -> 86 [] c = "a" -> 97 [] c = "b" -> 98
      [] c = "c" -> 99 [] c = "h" -> 104 [] OTHER -> 0

\* s sorts strictly before t, lexicographically.
RECURSIVE StringLess(_, _)
StringLess(s, t) ==
    IF t = <<>> THEN FALSE
    ELSE IF s = <<>> THEN TRUE
    ELSE IF CharCode(Head(s)) # CharCode(Head(t))
    THEN CharCode(Head(s)) < CharCode(Head(t))
    ELSE StringLess(Tail(s), Tail(t))

\* a must come before b under the sort key and order.
SortsBefore(a, b, sortBy, sortOrder) ==
    LET less(x, y) == IF sortBy.str = SortByPrice
                      THEN x.price < y.price
                      ELSE StringLess(x.name, y.name)
    IN  IF ~Falsy(sortOrder) /\ sortOrder.str = SortDesc
        THEN less(b, a)
        ELSE less(a, b)

\* x put into a sorted list behind every element it does not sort before.
RECURSIVE InsertSorted(_, _, _, _)
InsertSorted(x, list, sortBy, sortOrder) ==
    IF list = <<>> THEN <<x>>
    ELSE IF SortsBefore(x, Head(list), sortBy, sortOrder)
    THEN <<x>> \o list
    ELSE <<Head(list)>> \o InsertSorted(x, Tail(list), sortBy, sortOrder)

\* sortProperties(list, sortBy, sortOrder): a stable sort; without a sort
\* key the list is returned as it is.
RECURSIVE SortProperties(_, _, _)
SortProperties(list, sortBy, sortOrder) ==
    IF Falsy(sortBy) \/ list = <<>> THEN list
    ELSE InsertSorted(list[Len(list)],
                      SortProperties(SubSeq(list, 1, Len(list) - 1),
                                     sortBy, sortOrder),
                      sortBy, sortOrder)

\* list.slice(from, to) with 0-based from and exclusive to.
Slice(list, from, to) ==
    SubSeq(list, from + 1, IF to < Len(list) THEN to ELSE Len(list))

\* applyPagination(list, pageNumber): one page and the pagination metadata.
ApplyPagination(list, pageNumber) ==
    LET totalPages == Ceil(Len(list), PageSize)
    IN  [ data |-> Slice(list, (pageNumber - 1) * PageSize,
                         pageNumber * PageSize),
          pagination |->
            [ current_page |-> pageNumber, total_pages |-> totalPages,
              total_items |-> Len(list), items_per_page |-> PageSize,
              has_next_page |-> pageNumber < totalPages,
              has_previous_page |-> pageNumber > 1 ] ]

\* processPropertyDetail(property)
ProcessPropertyDetail(property) ==
    [ id |-> property.id, name |-> property.name,
      category |-> property.property_categories.name,
      available_rooms |-> ProcessRoomsAvailability(property) ]

\* processCalendarData(property, year, month, propertyId)
ProcessCalendarData(property, year, month, propertyId) ==
    [ property_id |-> propertyId, name |-> property.name, year |-> year,
      month |-> month, rooms |-> property.rooms ]

SendEmptyResponse(pageNumber) == Response("empty", "search", <<pageNumber>>)
SendSuccessResponse(data, categories, pagination) ==
    Response("success", "search",
             <<[data |-> data, categories |-> categories,
                pagination |-> pagination]>>)
SendErrorResponse == Response("server_error", "error", <<>>)
SendPropertyDetailResponse(processedProperty) ==
    Response("success", "detail", <<processedProperty>>)
SendPropertyNotFoundResponse == Response("not_found", "detail", <<>>)
SendNoAvailableRoomsResponse == Response("empty", "detail", <<>>)
SendCalendarResponse(calendarData) ==
    Response("success", "calendar", <<calendarData>>)
SendCalendarNotFoundResponse == Response("not_found", "calendar", <<>>)
SendCategoriesSuccessResponse(categories) ==
    Response("success", "categories", <<categories>>)
SendCategoriesEmptyResponse == Response("empty", "categories", <<>>)

-----------------------------------------------------------------------------
(* controllers/propertyController.ts                                       *)

\* ProcessAll pushing every fetched property, available rooms or not.
RECURSIVE ProcessAllKeepEmpty(_)
ProcessAllKeepEmpty(availableProperties) ==
    IF availableProperties = <<>> THEN <<>>
    ELSE LET property == Head(availableProperties)
             availableRooms == ProcessRoomsAvailability(property)
         IN  <<[ id |-> property.id, name |-> property.name,
                 category |-> property.property_categories.name,
                 available_rooms |-> availableRooms,
                 price |-> 0 ]>>
             \o ProcessAllKeepEmpty(Tail(availableProperties))

\* The loop of searchProperties over the fetched properties: a property is
\* pushed on processedProperties when it has an available room.
RECURSIVE ProcessAll(_)
ProcessAll(availableProperties) ==
    IF availableProperties = <<>> THEN <<>>
    ELSE LET property == Head(availableProperties)
             availableRooms == ProcessRoomsAvailability(property)
         IN  (IF Len(availableRooms) > 0
              THEN <<TransformPropertyData(property, availableRooms)>>
              ELSE <<>>)
             \o ProcessAll(Tail(availableProperties))

\* SearchResponse cutting the page out of the unsorted list and sorting the
\* page.
SearchResponseSortPage(availableProperties, processed, params) ==
    LET paginatedResult == ApplyPagination(processed, params.pageNumber)
        pageCheck == ValidatePagination(params.pageNumber,
                                        paginatedResult.pagination.total_pages)
        categories == [i \in 1 .. Len(availableProperties) |->
                          availableProperties[i].property_categories]
    IN  IF Len(processed) = 0
        THEN <<SendEmptyResponse(params.pageNumber)>>
        ELSE IF ~pageCheck.ok
        THEN pageCheck.sent
        ELSE <<SendSuccessResponse(
                   SortProperties(paginatedResult.data, params.sortBy,
                                  params.sortOrder),
                   categories, paginatedResult.pagination)>>

\* SearchResponse going on to the success response after a failed page-range
\* check (no return).
SearchResponseFallThrough(availableProperties, processed, params) ==
    LET sortedProperties ==
            SortProperties(processed, params.sortBy, params.sortOrder)
        paginatedResult == ApplyPagination(sortedProperties, params.pageNumber)
        pageCheck == ValidatePagination(params.pageNumber,
                                        paginatedResult.pagination.total_pages)
        categories == [i \in 1 .. Len(availableProperties) |->
                          availableProperties[i].property_categories]
    IN  IF Len(sortedProperties) = 0
        THEN <<SendEmptyResponse(params.pageNumber)>>
        ELSE pageCheck.sent
             \o <<SendSuccessResponse(paginatedResult.data, categories,
                                      paginatedResult.pagination)>>

\* SearchResponse with the page-range check and the success response ahead
\* of the empty check.
SearchResponsePageFirst(availableProperties, processed, params) ==
    LET sortedProperties ==
            SortProperties(processed, params.sortBy, params.sortOrder)
        paginatedResult == ApplyPagination(sortedProperties, params.pageNumber)
        pageCheck == ValidatePagination(params.pageNumber,
                                        paginatedResult.pagination.total_pages)
        categories == [i \in 1 .. Len(availableProperties) |->
                          availableProperties[i].property_categories]
    IN  IF ~pageCheck.ok
        THEN pageCheck.sent
        ELSE <<SendSuccessResponse(paginatedResult.data, categories,
                                   paginatedResult.pagination)>>

\* searchProperties from the sort to the response, given the fetched
\* properties and the processed list: the response it sends.
SearchResponse(availableProperties, processed, params) ==
    LET sortedProperties ==
            SortProperties(processed, params.sortBy, params.sortOrder)
        paginatedResult == ApplyPagination(sortedProperties, params.pageNumber)
        pageCheck == ValidatePagination(params.pageNumber,
                                        paginatedResult.pagination.total_pages)
        categories == [i \in 1 .. Len(availableProperties) |->
                          availableProperties[i].property_categories]
    IN  IF Len(sortedProperties) = 0
        THEN <<SendEmptyResponse(params.pageNumber)>>
        ELSE IF ~pageCheck.ok
        THEN pageCheck.sent
        ELSE <<SendSuccessResponse(paginatedResult.data, categories,
                                   paginatedResult.pagination)>>

\* DetailResponse answering not-found for a property without rooms too.
DetailResponseEmptyAsNotFound(found) ==
    IF found = <<>>
    THEN <<SendPropertyNotFoundResponse>>
    ELSE LET processedProperty == ProcessPropertyDetail(found[1])
         IN  IF Len(processedProperty.available_rooms) = 0
             THEN <<SendPropertyNotFoundResponse>>
             ELSE <<SendPropertyDetailResponse(processedProperty)>>

\* getPropertyDetailById after the fetch: the response it sends.
DetailResponse(found) ==
    IF found = <<>>
    THEN <<SendPropertyNotFoundResponse>>
    ELSE LET processedProperty == ProcessPropertyDetail(found[1])
         IN  IF Len(processedProperty.available_rooms) = 0
             THEN <<SendNoAvailableRoomsResponse>>
             ELSE <<SendPropertyDetailResponse(processedProperty)>>

\* getPropertyCalendar after the fetch: the response it sends.
CalendarResponse(found, params) ==
    IF found = <<>>
    THEN <<SendCalendarNotFoundResponse>>
    ELSE <<SendCalendarResponse(
             ProcessCalendarData(found[1], params.year, params.month,
                                 params.propertyId))>>

NoQuery == [none |-> TRUE]

\* No request is being handled.
Idle ==
    /\ handler = "none"
    /\ pc = "idle"
    /\ query = NoQuery
    /\ today = 0
    /\ validatedParams = Null
    /\ whereClause = Null
    /\ storeCalls = <<>>
    /\ totalCount = 0
    /\ fetched = <<>>
    /\ processedProperties = <<>>
    /\ responses = <<>>

\* A handler runs from its entry to its first await: it validates, and on
\* success issues its store query.
Start(name, q, t, validation, clause, call) ==
    /\ handler' = name
    /\ query' = q
    /\ today' = t
    /\ validatedParams' = validation.params
    /\ responses' = validation.sent
    /\ fetched' = <<>>
    /\ processedProperties' = <<>>
    /\ totalCount' = 0
    /\ IF validation.params.ok
       THEN /\ whereClause' = clause
            /\ storeCalls' = <<call>>
            /\ pc' = "await"
       ELSE /\ whereClause' = Null
            /\ storeCalls' = <<>>
            /\ pc' = "done"
    /\ UNCHANGED storeVars

\* searchProperties up to the await of getAvailableProperties.
SearchPropertiesStart(q, t) ==
    /\ pc = "idle"
    /\ LET validation == ValidateSearchParams(q, t)
       IN  Start("searchProperties", q, t, validation,
                 IF validation.params.ok
                 THEN BuildWhereClause(validation.params) ELSE Null,
                 "properties.findMany")

\* searchProperties from the resolved fetch to the response.
SearchPropertiesResume ==
    /\ pc = "await"
    /\ handler = "searchProperties"
    /\ LET availableProperties ==
               GetAvailableProperties(whereClause, validatedParams)
           processed == ProcessAll(availableProperties)
       IN  /\ fetched' = availableProperties
           /\ processedProperties' = processed
           /\ responses' = responses \o
                  SearchResponse(availableProperties, processed, validatedParams)
    /\ pc' = "done"
    /\ UNCHANGED <<storeVars, handler, query, today, validatedParams,
                   whereClause, storeCalls, totalCount>>

\* searchProperties from the line after the await to the response, for a
\* fetch result that is already in hand.
SearchPropertiesProcess ==
    /\ pc = "fetched"
    /\ handler = "searchProperties"
    /\ LET processed == ProcessAll(fetched)
       IN  /\ processedProperties' = processed
           /\ responses' = responses \o
                  SearchResponse(fetched, processed, validatedParams)
    /\ pc' = "done"
    /\ UNCHANGED <<storeVars, handler, query, today, validatedParams,
                   whereClause, storeCalls, totalCount, fetched>>

\* getPropertyDetailById up to the await of getPropertyDetail.
GetPropertyDetailByIdStart(q, t) ==
    /\ pc = "idle"
    /\ Start("getPropertyDetailById", q, t, ValidateDetailParams(q, t), Null,
             "properties.findUnique")

\* getPropertyDetailById from the resolved fetch to the response.
GetPropertyDetailByIdResume ==
    /\ pc = "await"
    /\ handler = "getPropertyDetailById"
    /\ LET property == GetPropertyDetail(validatedParams)
       IN  /\ fetched' = property
           /\ responses' = responses \o DetailResponse(property)
    /\ pc' = "done"
    /\ UNCHANGED <<storeVars, handler, query, today, validatedParams,
                   whereClause, storeCalls, totalCount, processedProperties>>

\* getPropertyCalendar up to the await of getPropertyForCalendar.
GetPropertyCalendarStart(q) ==
    /\ pc = "idle"
    /\ Start("getPropertyCalendar", q, 0, ValidateCalendarParams(q), Null,
             "properties.findUnique")

\* getPropertyCalendar from the resolved fetch to the response.
GetPropertyCalendarResume ==
    /\ pc = "await"
    /\ handler = "getPropertyCalendar"
    /\ LET property == GetPropertyForCalendar(validatedParams.propertyId,
                                              validatedParams.year,
                                              validatedParams.month)
       IN  /\ fetched' = property
           /\ responses' = responses \o CalendarResponse(property, validatedParams)
    /\ pc' = "done"
    /\ UNCHANGED <<storeVars, handler, query, today, validatedParams,
                   whereClause, storeCalls, totalCount, processedProperties>>

\* getPropertyCategoriesByTenant after the fetch: the response it sends.
CategoriesResponse(categories) ==
    IF Len(categories) = 0
    THEN <<SendCategoriesEmptyResponse>>
    ELSE <<SendCategoriesSuccessResponse(categories)>>

\* getPropertyCategoriesByTenant up to the await of getPropertyCategories.
GetPropertyCategoriesByTenantStart(q) ==
    /\ pc = "idle"
    /\ Start("getPropertyCategoriesByTenant", q, 0, ValidateCategoryParams(q),
             Null, "property_categories.findMany")

\* getPropertyCategoriesByTenant from the resolved fetch to the response.
GetPropertyCategoriesByTenantResume ==
    /\ pc = "await"
    /\ handler = "getPropertyCategoriesByTenant"
    /\ \E nullsFirst \in BOOLEAN :
          LET categories == GetPropertyCategories(validatedParams, nullsFirst)
          IN  /\ fetched' = categories
              /\ responses' = responses \o CategoriesResponse(categories)
    /\ pc' = "done"
    /\ UNCHANGED <<storeVars, handler, query, today, validatedParams,
                   whereClause, storeCalls, totalCount, processedProperties>>

\* getUserOwnedProperties up to the await of the count: a request without
\* a user is answered 401 before anything else.
GetUserOwnedPropertiesStart(user, q) ==
    /\ pc = "idle"
    /\ IF user = NullText
       THEN Start("getUserOwnedProperties", [user |-> user, page |-> q.page], 0,
                  [params |-> Null,
                   sent |-> <<Response("auth_error", "no_user", <<>>)>>],
                  Null, "none")
       ELSE Start("getUserOwnedProperties", [user |-> user, page |-> q.page], 0,
                  ValidateMyPropertiesParams(q), Null, "properties.count")

\* getUserProperties between its two awaits: the count has resolved and the
\* page query is issued.
GetUserPropertiesCounted ==
    /\ pc = "await"
    /\ handler = "getUserOwnedProperties"
    /\ Len(storeCalls) = 1
    /\ totalCount' = CountUserProperties(query.user)
    /\ storeCalls' = storeCalls \o <<"properties.findMany">>
    /\ UNCHANGED <<storeVars, handler, pc, query, today, validatedParams,
                   whereClause, fetched, processedProperties, responses>>

\* The response of getUserOwnedProperties to what getUserProperties returned.
OwnedResponse(result) ==
    IF Len(result.data) = 0
    THEN <<Response("empty", "owned", <<[data |-> <<>>,
                                         pagination |-> result.pagination]>>)>>
    ELSE <<Response("success", "owned",
                    <<[data |-> [i \in 1 .. Len(result.data) |->
                                    [ id |-> result.data[i].id,
                                      name |-> result.data[i].name,
                                      category |->
                                        result.data[i].property_categories.name ]],
                       pagination |-> result.pagination]>>)>>

\* getUserOwnedProperties from the resolved page query to the response.
GetUserOwnedPropertiesResume ==
    /\ pc = "await"
    /\ handler = "getUserOwnedProperties"
    /\ Len(storeCalls) = 2
    /\ LET data == FindUserProperties(query.user, validatedParams.page)
           result == UserPropertiesResult(totalCount, data, validatedParams.page)
       IN  /\ fetched' = data
           /\ responses' = responses \o OwnedResponse(result)
    /\ pc' = "done"
    /\ UNCHANGED <<storeVars, handler, query, today, validatedParams,
                   whereClause, storeCalls, totalCount, processedProperties>>

\* The request a create handler sees: req.user and the fields of req.body.
CreateQuery(user, body) ==
    [ user |-> user, name |-> body.name, description |-> body.description,
      location |-> body.location, category_id |-> body.category_id,
      city_id |-> body.city_id ]

\* CreateNewPropertyStart validating the body before it looks at the user.
CreateNewPropertyStartValidateFirst(user, body) ==
    /\ pc = "idle"
    /\ LET validation == ValidateCreatePropertyParams(body)
       IN  IF validation.params.ok /\ user = NullText
           THEN Start("createNewProperty", CreateQuery(user, body), 0,
                      [params |-> Null,
                       sent |-> <<Response("auth_error", "no_user", <<>>)>>],
                      Null, "none")
           ELSE Start("createNewProperty", CreateQuery(user, body), 0,
                      validation, Null, "properties.create")

\* createNewProperty up to the await of createProperty: a request without a
\* user is answered 401 before anything else.
CreateNewPropertyStart(user, body) ==
    /\ pc = "idle"
    /\ IF user = NullText
       THEN Start("createNewProperty", CreateQuery(user, body), 0,
                  [params |-> Null,
                   sent |-> <<Response("auth_error", "no_user", <<>>)>>],
                  Null, "none")
       ELSE Start("createNewProperty", CreateQuery(user, body), 0,
                  ValidateCreatePropertyParams(body), Null, "properties.create")

\* createNewProperty from the resolved insert to the 201 response.
CreateNewPropertyResume ==
    /\ pc = "await"
    /\ handler = "createNewProperty"
    /\ LET newProperty == NewProperty(validatedParams, query.user)
       IN  /\ properties' = CreateProperty(validatedParams, query.user)
           /\ fetched' = <<newProperty>>
           /\ responses' = responses \o
                  <<Response("success", "created",
                             <<[ id |-> newProperty.id, name |-> newProperty.name,
                                 tenant_id |-> newProperty.tenant_id,
                                 category |-> CategoryOf(newProperty).name,
                                 city_id |-> newProperty.city_id ]>>)>>
    /\ pc' = "done"
    /\ UNCHANGED <<rooms, bookings, room_unavailabilities, peak_season_rates,
                   property_categories, handler, query, today, validatedParams,
                   whereClause, storeCalls, totalCount, processedProperties>>

\* The awaited store operation rejects: control passes to the handler's
\* catch block.
StoreFailure ==
    /\ pc = "await"
    /\ pc' = "failed"
    /\ UNCHANGED <<storeVars, handler, query, today, validatedParams,
                   whereClause, storeCalls, totalCount, fetched,
                   processedProperties, responses>>

\* CatchError issuing the failed store operation once more.
CatchErrorRetry ==
    /\ pc = "failed"
    /\ storeCalls' = storeCalls \o <<storeCalls[Len(storeCalls)]>>
    /\ pc' = "await"
    /\ UNCHANGED <<storeVars, handler, query, today, validatedParams,
                   whereClause, totalCount, fetched, processedProperties,
                   responses>>

\* The catch block of a handler: the server error is sent and the handler
\* returns.  The owner handlers build the 500 response in place, the others
\* call sendErrorResponse.
CatchError ==
    /\ pc = "failed"
    /\ responses' = responses \o
           <<IF handler \in {"getUserOwnedProperties", "createNewProperty"}
             THEN Response("server_error", "error", <<>>)
             ELSE SendErrorResponse>>
    /\ pc' = "done"
    /\ UNCHANGED <<storeVars, handler, query, today, validatedParams,
                   whereClause, storeCalls, totalCount, fetched,
                   processedProperties>>

\* The handler has returned; the request's objects are dropped.
Return ==
    /\ pc = "done"
    /\ handler' = "none"
    /\ pc' = "idle"
    /\ query' = NoQuery
    /\ today' = 0
    /\ validatedParams' = Null
    /\ whereClause' = Null
    /\ storeCalls' = <<>>
    /\ totalCount' = 0
    /\ fetched' = <<>>
    /\ processedProperties' = <<>>
    /\ responses' = <<>>
    /\ UNCHANGED storeVars

-----------------------------------------------------------------------------
(* The requests of the model.                                              *)

Chars(n) == Str(Decimal(n))
Garbage == Str(<<"x">>)

DateStrings == {Undefined, Garbage} \cup {Str(DateString(t)) : t \in Instants}
GuestStrings == {Undefined, Garbage, Chars(0)}
                \cup {Chars(g) : g \in 1 .. (MaxGuests + 1)}
PageStrings == {Undefined, Garbage, Chars(0), Str(<<"-", "1">>)}
               \cup {Chars(n) : n \in 1 .. MaxPage}
CityStrings == {Undefined, Garbage, Chars(1), Chars(2), Chars(3)}
CategoryStrings ==
    { Undefined,
      Str(<<>>),
      Str(Villa),
      Str(<<"v", "i", "l">>),
      Str(<<" ", "h", "o", "t", "e", "l", " ">>),
      Str(Villa \o <<",">> \o Hotel),
      Str(<<"v", "i", "l", "l", "a", ",", " ", "h", "o", "t", "e", "l">>),
      Str(<<"v", "i", "l", ",">> \o Hotel),
      Str(Villa \o <<",">>) }
NameStrings == {Undefined, Str(<<"A">>)}
SortChoices ==
    { <<Undefined, Undefined>>, <<Str(SortByName), Str(SortAsc)>>,
      <<Str(SortByPrice), Str(SortDesc)>>, <<Garbage, Undefined>>,
      <<Str(SortByName), Garbage>> }

SearchQuery(city, ci, co, g, page, name, cat, sort) ==
    [ city_id |-> city, check_in |-> ci, check_out |-> co, guests |-> g,
      page |-> page, property_name |-> name, category_name |-> cat,
      sort_by |-> sort[1], sort_order |-> sort[2] ]

\* The first day a request of the second family may be made on.
Todays == {0, 2}

\* Search requests: every date window and guest count in city 1, and every
\* combination of the other parameters for one date window.
SearchRequests ==
    { <<SearchQuery(Chars(1), ci, co, g, Undefined, Undefined, Undefined,
                    <<Undefined, Undefined>>), t>> :
        ci \in DateStrings, co \in DateStrings, g \in GuestStrings,
        t \in Todays }
    \cup
    { <<SearchQuery(city, Str(DateString(1)), Str(DateString(3)), g, page,
                    name, cat, sort), 0>> :
        city \in CityStrings, g \in {Chars(1), Chars(MaxGuests)},
        page \in PageStrings, name \in NameStrings,
        cat \in CategoryStrings, sort \in SortChoices }

PropertyIdStrings == {Undefined, Garbage, Chars(0), Chars(1), Chars(2),
                      Chars(3), Chars(5), Chars(10)}

DetailRequests ==
    { <<[property_id |-> id, check_in |-> ci, check_out |-> co, guests |-> g], t>> :
        id \in {Chars(1)}, ci \in DateStrings, co \in DateStrings,
        g \in GuestStrings, t \in Todays }
    \cup
    { <<[property_id |-> id, check_in |-> Str(DateString(1)),
         check_out |-> Str(DateString(3)), guests |-> g], 0>> :
        id \in PropertyIdStrings, g \in GuestStrings }

YearStrings == {Undefined, Garbage, Chars(MinYear - 1), Chars(MinYear),
                Chars(MaxYear), Chars(MaxYear + 1)}
MonthStrings == {Undefined, Garbage, Chars(0), Chars(1), Chars(2), Chars(12),
                 Chars(13)}

CalendarRequests ==
    { [propertyId |-> id, year |-> y, month |-> m] :
        id \in PropertyIdStrings, y \in YearStrings, m \in MonthStrings }

\* tenant_id parameters: absent, empty, no UUID, a UUID of the wrong version,
\* and the UUIDs of three tenants (one without categories).
CategoryRequests ==
    { [tenant_id |-> t] :
        t \in {Undefined, Str(<<>>), Garbage,
               Str([TenantUuid("t1") EXCEPT ![15] = "0"])}
              \cup {Str(TenantUuid(u)) : u \in {"t1", "t2", "t3"}} }

-----------------------------------------------------------------------------
(* The specification of the public read handlers.                          *)

Init ==
    /\ properties = BaseProperties
    /\ rooms = BaseRooms
    /\ bookings = BaseBookings
    /\ room_unavailabilities = BaseUnavailabilities
    /\ peak_season_rates = BaseRates
    /\ property_categories = BaseCategories
    /\ Idle

Next ==
    \/ \E r \in SearchRequests : SearchPropertiesStart(r[1], r[2])
    \/ SearchPropertiesResume
    \/ \E r \in DetailRequests : GetPropertyDetailByIdStart(r[1], r[2])
    \/ GetPropertyDetailByIdResume
    \/ \E q \in CalendarRequests : GetPropertyCalendarStart(q)
    \/ GetPropertyCalendarResume
    \/ \E q \in CategoryRequests : GetPropertyCategoriesByTenantStart(q)
    \/ GetPropertyCategoriesByTenantResume
    \/ StoreFailure
    \/ CatchError
    \/ Return

Spec == Init /\ [][Next]_vars

-----------------------------------------------------------------------------
(* The specification of the owner listing: tenant t1 owns any number of    *)
(* properties up to MaxOwned, tenant t2 owns one, tenant t3 none.          *)

\* The most properties one tenant owns.
MaxOwned == 12

Users == {NullText, "t1", "t2", "t3"}

OwnedProperties(n) ==
    { Property(i, <<"V", "a">>, 1, 1, "t1") : i \in 1 .. n }
    \cup { Property(n + 1, <<"H", "a">>, 1, 2, "t2") }

InitOwner ==
    /\ \E n \in 0 .. MaxOwned : properties = OwnedProperties(n)
    /\ rooms = BaseRooms
    /\ bookings = BaseBookings
    /\ room_unavailabilities = BaseUnavailabilities
    /\ peak_season_rates = BaseRates
    /\ property_categories = BaseCategories
    /\ Idle

NextOwner ==
    \/ \E user \in Users, page \in PageStrings :
          GetUserOwnedPropertiesStart(user, [page |-> page])
    \/ GetUserPropertiesCounted
    \/ GetUserOwnedPropertiesResume
    \/ StoreFailure
    \/ CatchError
    \/ Return

SpecOwner == InitOwner /\ [][NextOwner]_vars

-----------------------------------------------------------------------------
(* The specification of searchProperties' processing as a function of the  *)
(* fetch result: the candidates are any set of properties of the store,    *)
(* each with the rooms and relations the include of getAvailableProperties *)
(* loads for it, whatever where clause selected them.                      *)

ProcessSorts == { <<Undefined, Undefined>>, <<Str(SortByPrice), Str(SortDesc)>> }

ProcessParams(g, page, sort) ==
    [ ok |-> TRUE, cityId |-> Num(1), checkInDate |-> Num(1),
      checkOutDate |-> Num(3), guestCount |-> Num(g), pageNumber |-> page,
      propertyName |-> Undefined, categoryName |-> Undefined,
      sortBy |-> sort[1], sortOrder |-> sort[2] ]

InitProcess ==
    /\ properties = BaseProperties
    /\ rooms = BaseRooms
    /\ bookings = BaseBookings
    /\ room_unavailabilities = BaseUnavailabilities
    /\ peak_season_rates = BaseRates
    /\ property_categories = BaseCategories
    /\ handler = "searchProperties"
    /\ pc = "fetched"
    /\ query = NoQuery
    /\ today = 0
    /\ whereClause = Null
    /\ storeCalls = <<"properties.findMany">>
    /\ totalCount = 0
    /\ processedProperties = <<>>
    /\ responses = <<>>
    /\ \E candidates \in SUBSET BaseProperties, g \in 1 .. MaxGuests,
          page \in 1 .. MaxPage, sort \in ProcessSorts :
          /\ validatedParams = ProcessParams(g, page, sort)
          /\ fetched = [i \in 1 .. Cardinality(candidates) |->
                          SearchPropertyWithRooms(ById(candidates)[i],
                                                  Num(g), Num(1), Num(3))]

NextProcess ==
    \/ SearchPropertiesProcess
    \/ Return

SpecProcess == InitProcess /\ [][NextProcess]_vars

-----------------------------------------------------------------------------
(* The specification of all six handlers over a store that grows: a few    *)
(* requests of each read handler, and creations up to MaxCreated.          *)

\* The most properties created in one behaviour.
MaxCreated == 2

Text(n) == Str(Repeat("a", n))

\* Request bodies of createNewProperty: name absent, short or padded,
\* description short or long enough; category_id absent, empty, not
\* numeric, zero or the id of a category, without a city_id; category_id
\* absent, not numeric or the id of no category, with a city_id that is
\* negative or positive.
CreateBodies ==
    { [ name |-> name, description |-> description, location |-> Text(3),
        category_id |-> ids[1], city_id |-> ids[2] ] :
        name \in {Undefined, Text(2), Str(<<" ">> \o Repeat("a", 3) \o <<" ">>)},
        description \in {Text(9), Text(10)},
        ids \in ({Undefined, Str(<<>>), Garbage, Chars(0), Chars(1)}
                    \X {Undefined})
                \cup ({Undefined, Garbage, Chars(9)}
                        \X {Str(<<"-", "1">>), Chars(2)}) }

\* A create request arrives: once MaxCreated properties were created, only
\* one that does not reach the insert.
CreateRequest(user, body) ==
    /\ \/ Cardinality(properties) < Cardinality(BaseProperties) + MaxCreated
       \/ user = NullText
       \/ ~ValidateCreatePropertyParams(body).params.ok
    /\ CreateNewPropertyStart(user, body)

StoreSearchRequests ==
    { <<SearchQuery(city, Str(DateString(1)), Str(DateString(3)), Chars(1),
                    page, Undefined, Undefined, <<Undefined, Undefined>>), 0>> :
        city \in {Undefined, Chars(1), Chars(3)},
        page \in {Undefined, Chars(MaxPage)} }

StoreDetailRequests ==
    { <<[property_id |-> id, check_in |-> Str(DateString(1)),
         check_out |-> Str(DateString(3)), guests |-> Chars(1)], 0>> :
        id \in PropertyIdStrings }

StoreCalendarRequests ==
    { [propertyId |-> id, year |-> Chars(MinYear), month |-> m] :
        id \in {Chars(1), Chars(10)}, m \in {Chars(1), Chars(13)} }

InitStore ==
    /\ properties = BaseProperties
    /\ rooms = BaseRooms
    /\ bookings = BaseBookings
    /\ room_unavailabilities = BaseUnavailabilities
    /\ peak_season_rates = BaseRates
    /\ property_categories = BaseCategories
    /\ Idle

NextStore ==
    \/ \E r \in StoreSearchRequests : SearchPropertiesStart(r[1], r[2])
    \/ SearchPropertiesResume
    \/ \E r \in StoreDetailRequests : GetPropertyDetailByIdStart(r[1], r[2])
    \/ GetPropertyDetailByIdResume
    \/ \E q \in StoreCalendarRequests : GetPropertyCalendarStart(q)
    \/ GetPropertyCalendarResume
    \/ \E q \in CategoryRequests : GetPropertyCategoriesByTenantStart(q)
    \/ GetPropertyCategoriesByTenantResume
    \/ \E user \in Users, page \in PageStrings :
          GetUserOwnedPropertiesStart(user, [page |-> page])
    \/ GetUserPropertiesCounted
    \/ GetUserOwnedPropertiesResume
    \/ \E user \in {NullText, "t1"}, body \in CreateBodies :
          CreateRequest(user, body)
    \/ CreateNewPropertyResume
    \/ StoreFailure
    \/ CatchError
    \/ Return

SpecStore == InitStore /\ [][NextStore]_vars

-----------------------------------------------------------------------------
(* The specification of an owner listing with create requests of other     *)
(* connections in flight: between two steps of the listing, at either of   *)
(* its awaits, the createProperty of a concurrent createNewProperty may     *)
(* resolve.                                                                *)

\* The bodies the concurrent create requests carry.
ConcurrentBodies ==
    { body \in CreateBodies :
        /\ ValidateCreatePropertyParams(body).params.ok
        /\ Falsy(body.category_id) /\ Falsy(body.city_id) }

\* The createProperty of a concurrent createNewProperty request of a tenant
\* resolves: its row is in the store.
ConcurrentCreateProperty(user, body) ==
    /\ CountUserProperties(user) < MaxOwned + MaxCreated
    /\ properties' = CreateProperty(ValidateCreatePropertyParams(body).params,
                                    user)
    /\ UNCHANGED <<rooms, bookings, room_unavailabilities, peak_season_rates,
                   property_categories, reqVars>>

InitConcurrent ==
    /\ \E n \in 0 .. MaxOwned : properties = OwnedProperties(n)
    /\ rooms = BaseRooms
    /\ bookings = BaseBookings
    /\ room_unavailabilities = BaseUnavailabilities
    /\ peak_season_rates = BaseRates
    /\ property_categories = BaseCategories
    /\ Idle

NextConcurrent ==
    \/ \E page \in {Undefined, Chars(2)} :
          GetUserOwnedPropertiesStart("t1", [page |-> page])
    \/ GetUserPropertiesCounted
    \/ GetUserOwnedPropertiesResume
    \/ \E body \in ConcurrentBodies : ConcurrentCreateProperty("t1", body)
    \/ Return

SpecConcurrent == InitConcurrent /\ [][NextConcurrent]_vars

-----------------------------------------------------------------------------
(* Properties of the fetches (propertyQuery.ts).                           *)

\* The rooms the fetch of the current request returned, over all the
\* properties it returned.
FetchedRooms ==
    UNION { {fetched[i].rooms[j] : j \in 1 .. Len(fetched[i].rooms)} :
              i \in 1 .. Len(fetched) }

\* The current request was validated, its fetch resolved and it was answered.
FetchDone(name) ==
    /\ handler = name
    /\ pc = "done"
    /\ validatedParams.ok
    /\ responses # <<>>
    /\ responses[Len(responses)].kind # "server_error"

\* C1: in the search fetch and the detail fetch, for a window with check-in
\* before check-out, a booking of a fetched room is among the room's fetched
\* bookings exactly when it is not canceled, starts before the check-out and
\* ends after the check-in; one ending at the check-in or starting at the
\* check-out is left out.
C1_BookingOverlap ==
    ( /\ handler \in {"searchProperties", "getPropertyDetailById"}
      /\ pc = "done"
      /\ Lt(NewDate(query.check_in), NewDate(query.check_out)) )
    => LET checkIn == NewDate(query.check_in).v
           checkOut == NewDate(query.check_out).v
       IN  \A room \in FetchedRooms : \A b \in bookings :
               b.room_id = room.id =>
                   ( b \in room.bookings
                     <=> ( /\ b.status_id # StatusCanceled
                           /\ b.check_in < checkOut
                           /\ b.check_out > checkIn ) )

\* A search fetched a room that has a live booking ending at the check-in
\* and one starting at the check-out, both left out, and one inside the
\* window, included.
C1_Witness ==
    /\ FetchDone("searchProperties")
    /\ \E room \in FetchedRooms : \E b1, b2, b3 \in bookings :
          /\ b1.room_id = room.id /\ b2.room_id = room.id /\ b3.room_id = room.id
          /\ b1.status_id # StatusCanceled /\ b2.status_id # StatusCanceled
          /\ b1.check_out = NewDate(query.check_in).v
          /\ b2.check_in = NewDate(query.check_out).v
          /\ b1 \notin room.bookings
          /\ b2 \notin room.bookings
          /\ b3 \in room.bookings

\* C2: a canceled booking is never among the bookings fetched for a room, on
\* the search, the detail and the calendar path, whatever its dates.
C2_CanceledNeverFetched ==
    ( /\ handler \in {"searchProperties", "getPropertyDetailById",
                      "getPropertyCalendar"}
      /\ pc = "done" )
    => \A b \in bookings :
           b.status_id = StatusCanceled
           => \A room \in FetchedRooms : b \notin room.bookings

\* The calendar fetched a room with a booking in the month whose canceled
\* twin (same room, same dates) is in the store and was not fetched.
C2_Witness ==
    /\ FetchDone("getPropertyCalendar")
    /\ \E room \in FetchedRooms : \E b \in room.bookings :
          /\ [b EXCEPT !.status_id = StatusCanceled] \in bookings
          /\ [b EXCEPT !.status_id = StatusCanceled] \notin room.bookings

\* C3: on a search or a detail request for g guests, no room of quantity 0
\* and no room that takes fewer than g guests is among the fetched rooms,
\* whatever the window and whatever bookings, blocks or rates the room has.
C3_IneligibleRoomNeverFetched ==
    ( /\ handler \in {"searchProperties", "getPropertyDetailById"}
      /\ pc = "done" )
    => \A r \in rooms :
           (r.quantity = 0 \/ Lt(Num(r.max_guests), ParseInt(query.guests)))
           => \A room \in FetchedRooms : room.id # r.id

\* A detail request fetched a property that has a room of quantity 0 and a
\* room too small for the guests, both left out, and a room that was
\* fetched.
C3_Witness ==
    /\ FetchDone("getPropertyDetailById")
    /\ fetched # <<>>
    /\ \E r0, r1 \in rooms :
          /\ r0.property_id = fetched[1].id /\ r1.property_id = fetched[1].id
          /\ r0.quantity = 0
          /\ r1.quantity > 0 /\ r1.max_guests < ParseInt(query.guests).v
          /\ \A room \in FetchedRooms : room.id \notin {r0.id, r1.id}
    /\ FetchedRooms # {}

-----------------------------------------------------------------------------
(* Properties of searchProperties' processing (propertyController.ts).     *)

\* The entries of the success payloads sent for the current request.
SuccessEntries ==
    UNION { {responses[k].data[1].data[n] :
                n \in 1 .. Len(responses[k].data[1].data)} :
              k \in {m \in 1 .. Len(responses) :
                        responses[m].kind = "success"} }

\* C4: in searchProperties a fetched property for which the availability
\* step yields no room contributes no entry to the processed list; every
\* entry of the processed list and of a success payload has at least one
\* available room; and a property whose every room is ineligible (quantity
\* 0 or too small for the guests) has no entry at all.
C4_NoPropertyWithoutRoom ==
    (handler = "searchProperties" /\ pc = "done")
    => /\ \A i \in 1 .. Len(fetched) :
              Len(ProcessRoomsAvailability(fetched[i])) = 0
              => \A k \in 1 .. Len(processedProperties) :
                     processedProperties[k].id # fetched[i].id
       /\ \A k \in 1 .. Len(processedProperties) :
              Len(processedProperties[k].available_rooms) > 0
       /\ \A e \in SuccessEntries : Len(e.available_rooms) > 0
       /\ \A p \in properties :
              (\A r \in rooms :
                   r.property_id = p.id
                   => (r.quantity = 0
                       \/ Lt(Num(r.max_guests), validatedParams.guestCount)))
              => /\ \A k \in 1 .. Len(processedProperties) :
                        processedProperties[k].id # p.id
                 /\ \A e \in SuccessEntries : e.id # p.id

\* The fetch held a property without an available room next to one with
\* rooms, and the success payload was sent without the former.
C4_Witness ==
    /\ handler = "searchProperties"
    /\ pc = "done"
    /\ \E i \in 1 .. Len(fetched) :
          /\ Len(ProcessRoomsAvailability(fetched[i])) = 0
          /\ \A e \in SuccessEntries : e.id # fetched[i].id
    /\ SuccessEntries # {}

\* The category names a category_name parameter asks for: its comma
\* separated parts, trimmed.
CategoryTokens(categoryName) ==
    [i \in 1 .. Len(Split(categoryName.str)) |-> Trim(Split(categoryName.str)[i])]

\* The category condition the parameter puts on a property: none when the
\* parameter is absent or empty; for one token, that the property's category
\* name contains it; for several, that it equals one of them; letter case
\* aside in both.
ExpectedCategoryMatch(p, categoryName) ==
    \/ Falsy(categoryName)
    \/ \E c \in property_categories :
          /\ c.id = p.category_id
          /\ IF Len(CategoryTokens(categoryName)) = 1
             THEN Contains(ToLower(c.name),
                           ToLower(CategoryTokens(categoryName)[1]))
             ELSE \E i \in 1 .. Len(CategoryTokens(categoryName)) :
                     ToLower(c.name) = ToLower(CategoryTokens(categoryName)[i])

\* C5: the category filter of buildWhereClause.  Among the properties that
\* meet the other conditions of the search (city, an eligible room, name),
\* the fetched ones are exactly those whose category contains the single
\* token of category_name, or equals one of its several tokens, case
\* insensitively; without category_name all of them are fetched.
C5_CategoryFilter ==
    FetchDone("searchProperties")
    => \A p \in properties :
           MatchesWhere([whereClause EXCEPT
                            !.property_categories = [op |-> "none", arg |-> <<>>]],
                        p)
           => ( (\E i \in 1 .. Len(fetched) : fetched[i].id = p.id)
                <=> ExpectedCategoryMatch(p, query.category_name) )

\* A search with two tokens, "vil" and "Hotel", fetched a property of
\* category Hotel and left out one of category Villa, whose name only
\* contains "vil".
C5_Witness ==
    /\ FetchDone("searchProperties")
    /\ ~Falsy(query.category_name)
    /\ Len(CategoryTokens(query.category_name)) = 2
    /\ \E p, q \in properties :
          /\ CategoryOf(p).name = Hotel
          /\ CategoryOf(q).name = Villa
          /\ q.city_id = p.city_id
          /\ Contains(ToLower(Villa), ToLower(CategoryTokens(query.category_name)[1]))
          /\ \E i \in 1 .. Len(fetched) : fetched[i].id = p.id
          /\ \A i \in 1 .. Len(fetched) : fetched[i].id # q.id
          /\ MatchesWhere([whereClause EXCEPT
                              !.property_categories = [op |-> "none", arg |-> <<>>]],
                          q)

-----------------------------------------------------------------------------
(* Properties of pagination.                                               *)

\* C6: the pagination metadata of the owner listing for page p: total_items
\* counts the user's properties, total_pages is the least number of pages
\* of 5 that hold them (ceil(total_items / 5)), has_next_page is p <
\* total_pages, has_previous_page is p > 1, items_per_page is 5 and
\* current_page is p; 12 items make 3 pages.
C6_OwnerPagination ==
    ( /\ handler = "getUserOwnedProperties"
      /\ pc = "done"
      /\ responses # <<>>
      /\ responses[Len(responses)].kind \in {"success", "empty"} )
    => LET pagination == responses[Len(responses)].data[1].pagination
           p == IF Falsy(query.page) THEN 1 ELSE ParseInt(query.page).v
           total == Cardinality({x \in properties : x.tenant_id = query.user})
       IN  /\ p >= 1
           /\ pagination.total_items = total
           /\ pagination.total_pages * 5 >= total
           /\ (pagination.total_pages - 1) * 5 < total
           /\ pagination.has_next_page = (p < pagination.total_pages)
           /\ pagination.has_previous_page = (p > 1)
           /\ pagination.items_per_page = 5
           /\ pagination.current_page = p
           /\ (total = 12 => pagination.total_pages = 3)

\* The owner of 12 properties was sent page 3: the last of 3 pages, with a
\* previous page and no next one.
C6_Witness ==
    /\ handler = "getUserOwnedProperties"
    /\ pc = "done"
    /\ responses # <<>>
    /\ responses[Len(responses)].kind = "success"
    /\ LET pagination == responses[Len(responses)].data[1].pagination
       IN  /\ pagination.total_items = 12
           /\ pagination.total_pages = 3
           /\ pagination.current_page = 3
           /\ ~pagination.has_next_page
           /\ pagination.has_previous_page

\* C7: in searchProperties, when at least one property survives and the
\* requested page lies beyond the last page, the request ends with the
\* out-of-range validation error alone; and a success payload always holds
\* the requested page, never an empty one.
C7_PageOutOfRange ==
    FetchDone("searchProperties")
    => /\ ( /\ Len(processedProperties) > 0
            /\ (PageNumberOf(query.page) - 1) * PageSize
                   >= Len(processedProperties) )
          => responses = <<ValidationError("page_range")>>
       /\ \A k \in 1 .. Len(responses) :
              responses[k].kind = "success"
              => /\ Len(responses[k].data[1].data) > 0
                 /\ responses[k].data[1].pagination.current_page
                        = PageNumberOf(query.page)

\* A search with more than one page of survivors asked for a page beyond
\* the last and was answered with the out-of-range error.
C7_Witness ==
    /\ FetchDone("searchProperties")
    /\ Len(processedProperties) > PageSize
    /\ (PageNumberOf(query.page) - 1) * PageSize >= Len(processedProperties)
    /\ responses = <<ValidationError("page_range")>>

\* C8: in searchProperties, when no property survives the availability
\* step, the request ends with the empty-result response alone, whatever
\* the page number: never with the out-of-range error or a success.
C8_EmptyBeforePagination ==
    ( /\ FetchDone("searchProperties")
      /\ processedProperties = <<>> )
    => /\ Len(responses) = 1
       /\ responses[1].kind = "empty"
       /\ responses[1].message = "search"
       /\ responses[1].data = <<PageNumberOf(query.page)>>

\* A search for a page beyond the first found nothing and was answered
\* with the empty result.
C8_Witness ==
    /\ FetchDone("searchProperties")
    /\ processedProperties = <<>>
    /\ PageNumberOf(query.page) > 1
    /\ responses[1].kind = "empty"

-----------------------------------------------------------------------------
(* Properties of validation (propertyValidation.ts).                       *)

\* C9: a search or detail request whose check-in is not before its
\* check-out, or whose check-in is before the start of the current day, is
\* answered with a validation error, validation returns null, and no store
\* query is made and nothing is fetched or processed.
C9_BadDatesRejected ==
    ( /\ handler \in {"searchProperties", "getPropertyDetailById"}
      /\ pc # "idle"
      /\ \/ Gte(NewDate(query.check_in), NewDate(query.check_out))
         \/ Lt(NewDate(query.check_in), Num(today)) )
    => /\ pc = "done"
       /\ validatedParams = Null
       /\ storeCalls = <<>>
       /\ fetched = <<>>
       /\ processedProperties = <<>>
       /\ Len(responses) = 1
       /\ responses[1].kind = "validation_error"

\* A search whose check-in equals its check-out, on a day not after the
\* check-in, was rejected for the order of its dates.
C9_Witness ==
    /\ handler = "searchProperties"
    /\ pc = "done"
    /\ ~NewDate(query.check_in).nan
    /\ NewDate(query.check_in) = NewDate(query.check_out)
    /\ ~Lt(NewDate(query.check_in), Num(today))
    /\ validatedParams = Null
    /\ storeCalls = <<>>
    /\ responses = <<ValidationError("date_order")>>

\* C10: a search request with a mandatory parameter missing or malformed
\* (city_id or guests that is no number, check_in or check_out that is no
\* date) is answered with a validation error and validation returns null, so
\* no where clause is built and no store query is made for it.
C10_MalformedSearchRejected ==
    ( /\ handler = "searchProperties"
      /\ pc # "idle"
      /\ \/ Falsy(query.city_id) \/ Falsy(query.guests)
         \/ Falsy(query.check_in) \/ Falsy(query.check_out)
         \/ ParseInt(query.city_id).nan
         \/ ParseInt(query.guests).nan
         \/ NewDate(query.check_in).nan
         \/ NewDate(query.check_out).nan )
    => /\ validatedParams = Null
       /\ whereClause = Null
       /\ storeCalls = <<>>
       /\ Len(responses) = 1
       /\ responses[1].kind = "validation_error"

-----------------------------------------------------------------------------
(* Properties of the detail and category handlers.                         *)

\* C11: getPropertyDetailById with valid parameters sends exactly one of
\* three answers: not-found exactly when no property has the id; the
\* no-available-rooms answer exactly when the property exists and none of
\* its rooms is available (positive quantity, enough guests); the detail
\* payload exactly when the property exists and has an available room.
C11_DetailOutcomes ==
    FetchDone("getPropertyDetailById")
    => LET id == ParseInt(query.property_id).v
           g == ParseInt(query.guests).v
           exists == \E p \in properties : p.id = id
           available == \E r \in rooms : /\ r.property_id = id
                                         /\ r.quantity > 0
                                         /\ r.max_guests >= g
       IN  /\ Len(responses) = 1
           /\ responses[1].message = "detail"
           /\ responses[1].kind \in {"not_found", "empty", "success"}
           /\ responses[1].kind = "not_found" <=> ~exists
           /\ responses[1].kind = "empty" <=> (exists /\ ~available)
           /\ responses[1].kind = "success" <=> (exists /\ available)

\* A detail request for a property that exists but has no available room
\* was answered with the no-available-rooms answer, not with not-found.
C11_Witness ==
    /\ FetchDone("getPropertyDetailById")
    /\ \E p \in properties : p.id = ParseInt(query.property_id).v
    /\ responses = <<SendNoAvailableRoomsResponse>>

\* C12: getPropertyCategories returns exactly the categories without a
\* tenant, plus, when a tenant id is supplied, the categories of that
\* tenant, each once; a private category of another tenant is never
\* returned, and none at all when no tenant id is supplied.
C12_CategoryVisibility ==
    FetchDone("getPropertyCategoriesByTenant")
    => /\ { fetched[i] : i \in 1 .. Len(fetched) }
            = { c \in property_categories : c.tenant_id = NullText }
              \cup { c \in property_categories :
                       /\ c.tenant_id # NullText
                       /\ query.tenant_id.set
                       /\ TenantUuid(c.tenant_id) = query.tenant_id.str }
       /\ \A i, j \in 1 .. Len(fetched) : fetched[i] = fetched[j] => i = j

\* A tenant with private categories asked for the list and got its own and
\* the global ones, while another tenant's private category stayed out.
C12_Witness ==
    /\ FetchDone("getPropertyCategoriesByTenant")
    /\ query.tenant_id.set
    /\ \E i, j \in 1 .. Len(fetched) :
          /\ fetched[i].tenant_id = NullText
          /\ fetched[j].tenant_id # NullText
          /\ TenantUuid(fetched[j].tenant_id) = query.tenant_id.str
    /\ \E c \in property_categories :
          /\ c.tenant_id # NullText
          /\ TenantUuid(c.tenant_id) # query.tenant_id.str
          /\ \A i \in 1 .. Len(fetched) : fetched[i] # c

\* C13: in the list getPropertyCategories returns, every category without
\* a tenant comes before every private category, and within each of the
\* two groups the ids ascend.
C13_GlobalCategoriesFirst ==
    FetchDone("getPropertyCategoriesByTenant")
    => \A i, j \in 1 .. Len(fetched) :
           i < j
           => /\ ~(fetched[i].tenant_id # NullText
                   /\ fetched[j].tenant_id = NullText)
              /\ (fetched[i].tenant_id = NullText
                      <=> fetched[j].tenant_id = NullText)
                 => fetched[i].id < fetched[j].id

-----------------------------------------------------------------------------
(* Properties of the owner listing.                                        *)

\* C14: page p of the owner listing holds only properties of that tenant,
\* at most 5, namely those at positions (p-1)*5+1 .. p*5 of the tenant's
\* properties from the newest to the oldest; rooms and their bookings,
\* blocks and rates play no part in the selection.
C14_OwnerPage ==
    ( /\ handler = "getUserOwnedProperties"
      /\ pc = "done"
      /\ responses # <<>>
      /\ responses[Len(responses)].kind \in {"success", "empty"} )
    => LET p == IF Falsy(query.page) THEN 1 ELSE ParseInt(query.page).v
           mine == {x \in properties : x.tenant_id = query.user}
       IN  /\ Len(fetched) <= 5
           /\ Len(fetched)
                = Cardinality({k \in ((p - 1) * 5 + 1) .. (p * 5) :
                                  k <= Cardinality(mine)})
           /\ \A i \in 1 .. Len(fetched) :
                 /\ fetched[i].tenant_id = query.user
                 /\ \E x \in mine :
                       /\ x.id = fetched[i].id
                       /\ Cardinality({y \in mine : y.created_at > x.created_at})
                            = (p - 1) * 5 + i - 1

\* The second page of a tenant's listing was full and held a property
\* without any room and a property whose only rooms have quantity 0.
C14_Witness ==
    /\ handler = "getUserOwnedProperties"
    /\ pc = "done"
    /\ responses # <<>>
    /\ responses[Len(responses)].kind = "success"
    /\ ParseInt(query.page) = Num(2)
    /\ Len(fetched) = 5
    /\ \E i, j \in 1 .. Len(fetched) :
          /\ \A r \in rooms : r.property_id # fetched[i].id
          /\ \E r \in rooms : r.property_id = fetched[j].id
          /\ \A r \in rooms : r.property_id = fetched[j].id => r.quantity = 0

-----------------------------------------------------------------------------
(* Properties of the handlers' control flow and of the store.              *)

\* C15: a request to getUserOwnedProperties or createNewProperty that
\* carries no user is answered with the authentication error alone, with no
\* parameter validation (whatever the parameters are), no store read and
\* no store write.
C15_NoUserAuthError ==
    /\ [](( /\ handler \in {"getUserOwnedProperties", "createNewProperty"}
            /\ pc # "idle"
            /\ query.user = NullText )
          => /\ pc = "done"
             /\ Len(responses) = 1
             /\ responses[1].kind = "auth_error"
             /\ validatedParams = Null
             /\ storeCalls = <<>>
             /\ fetched = <<>>
             /\ totalCount = 0)
    /\ [][( /\ handler' \in {"getUserOwnedProperties", "createNewProperty"}
            /\ query'.user = NullText )
          => UNCHANGED storeVars]_vars

\* A create request without a user and without a name was answered with
\* the authentication error, not with a validation error.
C15_Witness ==
    /\ handler = "createNewProperty"
    /\ pc = "done"
    /\ query.user = NullText
    /\ Falsy(query.name)
    /\ responses = <<Response("auth_error", "no_user", <<>>)>>
    /\ properties = BaseProperties

\* C16: in every handler, once a store operation has failed, the handler
\* issues no further store operation (no retry, no later query) and changes
\* nothing in the store; the request ends with the server error as its only
\* response, and nothing follows it.
C16_StoreFailureAborts ==
    /\ [][pc = "failed"
          => /\ pc' = "done"
             /\ storeCalls' = storeCalls
             /\ UNCHANGED storeVars
             /\ Len(responses') = 1
             /\ responses'[1].kind = "server_error"]_vars
    /\ [][pc = "done"
          => /\ storeCalls' \in {storeCalls, <<>>}
             /\ responses' \in {responses, <<>>}]_vars

\* The count of the owner listing failed: the page query was never issued
\* and the request ended with the server error.
C16_Witness ==
    /\ handler = "getUserOwnedProperties"
    /\ pc = "done"
    /\ storeCalls = <<"properties.count">>
    /\ Len(responses) = 1
    /\ responses[1].kind = "server_error"

\* C17: a request to searchProperties, getPropertyDetailById,
\* getPropertyCalendar or getPropertyCategoriesByTenant has sent nothing
\* while it waits for the store, and when it returns it has sent exactly
\* one response: a success, not-found, empty, validation-error or
\* server-error one.
C17_ExactlyOneResponse ==
    /\ []( handler \in {"searchProperties", "getPropertyDetailById",
                        "getPropertyCalendar", "getPropertyCategoriesByTenant"}
           => /\ pc \in {"await", "failed"} => responses = <<>>
              /\ pc = "done"
                 => /\ Len(responses) = 1
                    /\ responses[1].kind \in {"success", "not_found", "empty",
                                              "validation_error", "server_error"} )
    /\ [][( /\ handler \in {"searchProperties", "getPropertyDetailById",
                            "getPropertyCalendar",
                            "getPropertyCategoriesByTenant"}
            /\ handler' = "none" )
          => Len(responses) = 1]_vars

\* A category request with a malformed tenant id returned having sent the
\* validation error and nothing else.
C17_Witness ==
    /\ handler = "getPropertyCategoriesByTenant"
    /\ pc = "done"
    /\ ~Falsy(query.tenant_id)
    /\ storeCalls = <<>>
    /\ responses = <<ValidationError("tenant_id")>>

\* C18: every step of a search, detail, calendar, category-listing or
\* owner-listing request leaves the six store tables as they were, and so
\* does every step of a create request except the completion of its store
\* call, which adds exactly one property and changes no other table.
C18_OnlyCreateAddsOneProperty ==
    [][IF handler = "createNewProperty" /\ pc = "await" /\ pc' = "done"
       THEN /\ \E p \in properties' :
                 /\ p \notin properties
                 /\ properties' = properties \cup {p}
            /\ Cardinality(properties') = Cardinality(properties) + 1
            /\ UNCHANGED <<rooms, bookings, room_unavailabilities,
                           peak_season_rates, property_categories>>
       ELSE UNCHANGED storeVars]_vars

\* A read request has completed its store calls on a store that already
\* holds a created property.
C18_Witness ==
    /\ handler \in {"searchProperties", "getPropertyDetailById",
                    "getPropertyCalendar", "getPropertyCategoriesByTenant",
                    "getUserOwnedProperties"}
    /\ pc = "done"
    /\ storeCalls # <<>>
    /\ Len(responses) = 1
    /\ responses[1].kind = "success"
    /\ Cardinality(properties) > Cardinality(BaseProperties)

\* C19: in the search fetch and the detail fetch, for a window with check-in
\* before check-out, an unavailability block or a peak season rate of a
\* fetched room is among the room's fetched blocks or rates exactly when it
\* starts before the check-out and ends after the check-in; one starting at
\* the check-out or ending at the check-in is left out.
C19_BlocksAndRatesHalfOpen ==
    ( /\ handler \in {"searchProperties", "getPropertyDetailById"}
      /\ pc = "done"
      /\ Lt(NewDate(query.check_in), NewDate(query.check_out)) )
    => LET checkIn == NewDate(query.check_in).v
           checkOut == NewDate(query.check_out).v
       IN  \A room \in FetchedRooms :
              /\ \A u \in room_unavailabilities :
                    u.room_id = room.id =>
                        ( u \in room.room_unavailabilities
                          <=> ( /\ u.start_date < checkOut
                                /\ u.end_date > checkIn ) )
              /\ \A r \in peak_season_rates :
                    r.room_id = room.id =>
                        ( r \in room.peak_season_rates
                          <=> ( /\ r.start_date < checkOut
                                /\ r.end_date > checkIn ) )

\* C20: in the calendar fetch of a month that begins at monthStart and is
\* followed by the month beginning at monthNext, a booking, unavailability
\* block or peak rate of a fetched room is among the room's fetched records
\* exactly when it starts before monthNext and ends after monthStart (and,
\* for a booking, is not canceled); a booking that checks out at monthStart
\* is left out.
C20_CalendarHalfOpen ==
    ( /\ handler = "getPropertyCalendar"
      /\ pc = "done"
      /\ validatedParams.ok )
    => LET monthStart == MonthStartDate(validatedParams.year,
                                        validatedParams.month)
           monthNext == monthStart + MonthLen
       IN  \A room \in FetchedRooms :
              /\ \A b \in bookings :
                    b.room_id = room.id =>
                        ( b \in room.bookings
                          <=> ( /\ b.status_id # StatusCanceled
                                /\ b.check_in < monthNext
                                /\ b.check_out > monthStart ) )
              /\ \A u \in room_unavailabilities :
                    u.room_id = room.id =>
                        ( u \in room.room_unavailabilities
                          <=> ( /\ u.start_date < monthNext
                                /\ u.end_date > monthStart ) )
              /\ \A r \in peak_season_rates :
                    r.room_id = room.id =>
                        ( r \in room.peak_season_rates
                          <=> ( /\ r.start_date < monthNext
                                /\ r.end_date > monthStart ) )

\* The search parameters that ask for the city of the property a detail
\* request fetched, with the detail request's guest count and date window
\* and no name or category filter.
SearchParamsOfDetail ==
    [ cityId |-> Num((CHOOSE p \in properties : p.id = fetched[1].id).city_id),
      guestCount |-> validatedParams.guestCount,
      checkInDate |-> validatedParams.checkInDate,
      checkOutDate |-> validatedParams.checkOutDate,
      propertyName |-> Undefined, categoryName |-> Undefined ]

\* C21: when the detail fetch returned a property, every entry the search
\* fetch returns for that property on the same store, with the same guest
\* count and date window, has the same rooms, each with the same bookings,
\* unavailability blocks and peak rates.
C21_DetailFetchEqualsSearchFetch ==
    ( /\ FetchDone("getPropertyDetailById")
      /\ fetched # <<>> )
    => LET candidates ==
               GetAvailableProperties(BuildWhereClause(SearchParamsOfDetail),
                                      SearchParamsOfDetail)
       IN  \A i \in 1 .. Len(candidates) :
               candidates[i].id = fetched[1].id
               => candidates[i].rooms = fetched[1].rooms

\* A detail request fetched a property that is a search candidate, with a
\* room that carries bookings, blocks and rates.
C21_Witness ==
    /\ FetchDone("getPropertyDetailById")
    /\ fetched # <<>>
    /\ LET candidates ==
               GetAvailableProperties(BuildWhereClause(SearchParamsOfDetail),
                                      SearchParamsOfDetail)
       IN  \E i \in 1 .. Len(candidates) :
              /\ candidates[i].id = fetched[1].id
              /\ \E j \in 1 .. Len(candidates[i].rooms) :
                    /\ candidates[i].rooms[j].bookings # {}
                    /\ candidates[i].rooms[j].room_unavailabilities # {}
                    /\ candidates[i].rooms[j].peak_season_rates # {}
    /\ \E r \in rooms : r.property_id = fetched[1].id /\ r.quantity = 0

-----------------------------------------------------------------------------
(* Properties of createNewProperty.                                        *)

\* The name, description and location of the current create request are
\* given and long enough once trimmed.
CreateTextsValid ==
    /\ ~Falsy(query.name) /\ Len(Trim(query.name.str)) >= 3
    /\ ~Falsy(query.description) /\ Len(Trim(query.description.str)) >= 10
    /\ ~Falsy(query.location) /\ Len(Trim(query.location.str)) >= 3

\* A category_id or city_id that is given (not absent, not empty) and does
\* not parse to a positive integer.
MalformedReference(x) ==
    ~Falsy(x) /\ (ParseInt(x).nan \/ ParseInt(x).v <= 0)

\* The reference a well-formed category_id or city_id stands for: null when
\* it is absent (or empty), the parsed integer otherwise.
ReferenceOf(x) == IF Falsy(x) THEN NullId ELSE ParseInt(x).v

\* C22: a create request of an authenticated tenant with valid name,
\* description and location (a) with a category_id or city_id that is given
\* but does not parse to a positive integer is answered with a validation
\* error alone, without a store call and without an insert; (b) otherwise
\* makes the one store call properties.create and no lookup, and when that
\* call resolves it has inserted exactly one property, owned by the tenant,
\* whose category and city references are null where the field was absent
\* (or empty) and the parsed id where it was given, whether or not a
\* category of that id exists.
C22_CreateSemantics ==
    /\ []( ( /\ handler = "createNewProperty"
             /\ pc # "idle"
             /\ query.user # NullText
             /\ CreateTextsValid )
           => IF MalformedReference(query.category_id)
                 \/ MalformedReference(query.city_id)
              THEN /\ pc = "done"
                   /\ Len(responses) = 1
                   /\ responses[1].kind = "validation_error"
                   /\ storeCalls = <<>>
                   /\ fetched = <<>>
              ELSE /\ storeCalls = <<"properties.create">>
                   /\ ( pc = "done" /\ responses[1].kind = "success" )
                      => /\ Len(fetched) = 1
                         /\ fetched[1] \in properties
                         /\ fetched[1].tenant_id = query.user
                         /\ fetched[1].category_id
                                = ReferenceOf(query.category_id)
                         /\ fetched[1].city_id = ReferenceOf(query.city_id) )
    /\ [][( handler = "createNewProperty" /\ pc = "await" /\ pc' = "done" )
          => /\ fetched'[1] \notin properties
             /\ properties' = properties \cup {fetched'[1]}]_vars
    /\ [][( /\ handler' = "createNewProperty"
            /\ \/ MalformedReference(query'.category_id)
               \/ MalformedReference(query'.city_id) )
          => properties' = properties]_vars

\* A tenant created a property with the id of no category and a city id and
\* without another store call; the property is stored with both.
C22_Witness ==
    /\ handler = "createNewProperty"
    /\ pc = "done"
    /\ query.user = "t1"
    /\ storeCalls = <<"properties.create">>
    /\ responses[1].kind = "success"
    /\ ~Falsy(query.category_id)
    /\ ~\E c \in property_categories : c.id = ParseInt(query.category_id).v
    /\ fetched[1].category_id = 9
    /\ fetched[1].city_id = 2
    /\ fetched[1] \in properties
    /\ Cardinality(properties) = Cardinality(BaseProperties) + 1

-----------------------------------------------------------------------------
(* Properties of the order of the steps of searchProperties.               *)

\* The fetched properties that have an available room.
Survivors ==
    {i \in 1 .. Len(fetched) : Len(ProcessRoomsAvailability(fetched[i])) > 0}

\* C23: a search whose fetch resolved answers from the surviving properties
\* alone and in this order: the empty response when none survives, else
\* the out-of-range error when the page starts beyond the survivors, else a
\* success whose pagination counts the survivors (not the fetched
\* candidates) and whose page holds the entries at positions
\* (page - 1) * PageSize + 1 .. page * PageSize of the sorted list of all
\* survivors: entry k of the page is a survivor that at most
\* (page - 1) * PageSize + k - 1 survivors sort before and that sorts before
\* at most the remaining ones (or, without a sort key, the survivor at that
\* position in fetch order).
C23_PaginationAfterSort ==
    ( /\ handler = "searchProperties"
      /\ pc = "done"
      /\ validatedParams.ok
      /\ responses # <<>>
      /\ responses[1].kind # "server_error" )
    => LET n == Cardinality(Survivors)
           page == validatedParams.pageNumber
           lo == (page - 1) * PageSize
           sortBy == validatedParams.sortBy
           sortOrder == validatedParams.sortOrder
       IN  /\ Len(responses) = 1
           /\ Len(processedProperties) = n
           /\ {processedProperties[i].id : i \in 1 .. n}
                  = {fetched[i].id : i \in Survivors}
           /\ IF n = 0 THEN responses[1].kind = "empty"
              ELSE IF lo >= n THEN responses[1] = ValidationError("page_range")
              ELSE /\ responses[1].kind = "success"
                   /\ LET data == responses[1].data[1].data
                          pagination == responses[1].data[1].pagination
                      IN  /\ pagination.total_items = n
                          /\ pagination.total_pages = Ceil(n, PageSize)
                          /\ Len(data) = IF n - lo < PageSize THEN n - lo
                                         ELSE PageSize
                          /\ \A k \in 1 .. Len(data) :
                                \E i \in 1 .. n : data[k] = processedProperties[i]
                          /\ \A k, l \in 1 .. Len(data) :
                                k # l => data[k].id # data[l].id
                          /\ \A k \in 1 .. Len(data) :
                                IF Falsy(sortBy)
                                THEN data[k] = processedProperties[lo + k]
                                ELSE /\ Cardinality(
                                          {i \in 1 .. n :
                                              SortsBefore(processedProperties[i],
                                                          data[k], sortBy,
                                                          sortOrder)})
                                            <= lo + k - 1
                                     /\ Cardinality(
                                          {i \in 1 .. n :
                                              SortsBefore(data[k],
                                                          processedProperties[i],
                                                          sortBy, sortOrder)})
                                            <= n - (lo + k)

\* A search sorted by price had candidates dropped and more than one page
\* of survivors, and returned its second page; the survivor of the highest
\* price is not the first in fetch order.
C23_Witness ==
    /\ handler = "searchProperties"
    /\ pc = "done"
    /\ ~Falsy(validatedParams.sortBy)
    /\ validatedParams.pageNumber = 2
    /\ Cardinality(Survivors) < Len(fetched)
    /\ Cardinality(Survivors) > PageSize
    /\ Len(responses) = 1
    /\ responses[1].kind = "success"
    /\ responses[1].data[1].pagination.total_items = Cardinality(Survivors)
    /\ \E i \in 2 .. Len(processedProperties) :
          processedProperties[i].price > processedProperties[1].price

-----------------------------------------------------------------------------
(* Properties of the page parameter of a search.                           *)

\* C24: a search request whose page parameter parses to an integer less
\* than 1 (zero or negative) is answered with a validation error alone and
\* reaches no store call; and a search is validated with page 1 only when
\* its page parameter is absent, not numeric, or 1 itself.
C24_PageBelowOneRejected ==
    ( handler = "searchProperties" /\ pc # "idle" )
    => /\ ( ~ParseInt(query.page).nan /\ ParseInt(query.page).v < 1 )
          => /\ pc = "done"
             /\ validatedParams = Null
             /\ storeCalls = <<>>
             /\ Len(responses) = 1
             /\ responses[1].kind = "validation_error"
       /\ ( validatedParams.ok /\ validatedParams.pageNumber = 1 )
          => \/ Falsy(query.page)
             \/ ParseInt(query.page).nan
             \/ ParseInt(query.page).v = 1

-----------------------------------------------------------------------------
(* Properties of the search fetch's room lists.                            *)

\* C25: every property the search fetch returns comes with at least one
\* fetched room.
C25_FetchedPropertyHasRoom ==
    ( handler = "searchProperties" /\ pc = "done" )
    => \A i \in 1 .. Len(fetched) : Len(fetched[i].rooms) > 0

\* A search fetched a property with fewer rooms than it has, and did not
\* fetch a property of the requested city none of whose rooms is eligible.
C25_Witness ==
    /\ FetchDone("searchProperties")
    /\ \E i \in 1 .. Len(fetched) :
          /\ Len(fetched[i].rooms) > 0
          /\ Len(fetched[i].rooms)
                < Cardinality({r \in rooms : r.property_id = fetched[i].id})
    /\ \E p \in properties :
          /\ p.city_id = validatedParams.cityId.v
          /\ \E r \in rooms : r.property_id = p.id
          /\ \A i \in 1 .. Len(fetched) : fetched[i].id # p.id

-----------------------------------------------------------------------------
(* Properties of the fetched unavailability blocks.                        *)

\* C26 as stated: in the search fetch and the detail fetch, every
\* unavailability block of a fetched room whose closed interval
\* [start_date, end_date] contains a night d of the stay
\* (checkIn <= d < checkOut) is among the room's fetched blocks, one that
\* ends at the check-in included.
C26_BlockWithNightIncluded ==
    ( /\ handler \in {"searchProperties", "getPropertyDetailById"}
      /\ pc = "done"
      /\ Lt(NewDate(query.check_in), NewDate(query.check_out)) )
    => LET checkIn == NewDate(query.check_in).v
           checkOut == NewDate(query.check_out).v
       IN  \A room \in FetchedRooms : \A u \in room_unavailabilities :
               ( /\ u.room_id = room.id
                 /\ \E d \in Instants :
                       /\ u.start_date <= d /\ d <= u.end_date
                       /\ checkIn <= d /\ d < checkOut )
               => u \in room.room_unavailabilities

\* C26: in the search fetch and the detail fetch, an unavailability block
\* of a fetched room is among the room's fetched blocks exactly when it
\* starts before the check-out and ends after the check-in; a block that
\* ends at the check-in, whose only night of the stay is the check-in
\* night, is not fetched.
C26_BlockFetchedHalfOpen ==
    ( /\ handler \in {"searchProperties", "getPropertyDetailById"}
      /\ pc = "done"
      /\ Lt(NewDate(query.check_in), NewDate(query.check_out)) )
    => LET checkIn == NewDate(query.check_in).v
           checkOut == NewDate(query.check_out).v
       IN  \A room \in FetchedRooms : \A u \in room_unavailabilities :
               u.room_id = room.id
               => /\ u \in room.room_unavailabilities
                     <=> (u.start_date < checkOut /\ u.end_date > checkIn)
                  /\ u.end_date = checkIn => u \notin room.room_unavailabilities

\* A search fetched a room with a block that ends at the check-in, left
\* out, and a block that ends the instant after, fetched.
C26_Witness ==
    /\ FetchDone("searchProperties")
    /\ \E room \in FetchedRooms : \E u1, u2 \in room_unavailabilities :
          /\ u1.room_id = room.id /\ u2.room_id = room.id
          /\ u1.end_date = NewDate(query.check_in).v
          /\ u1.start_date < u1.end_date
          /\ u2.end_date = NewDate(query.check_in).v + 1
          /\ u1 \notin room.room_unavailabilities
          /\ u2 \in room.room_unavailabilities

-----------------------------------------------------------------------------
(* Properties of the calendar fetch.                                       *)

-----------------------------------------------------------------------------
(* Properties of the owner listing under concurrent creation.              *)

\* C28: when the owner listing reads its page and answers, the total_items
\* of its pagination is the number of the tenant's properties in the store
\* state the page was read from, also when properties of the tenant are
\* created while the listing is in flight.
C28_ListingFromOneSnapshot ==
    [][( /\ handler = "getUserOwnedProperties"
         /\ pc = "await"
         /\ pc' = "done"
         /\ responses'[1].kind \in {"success", "empty"} )
       => responses'[1].data[1].pagination.total_items
              = Cardinality({x \in properties : x.tenant_id = query.user})]_vars

-----------------------------------------------------------------------------
(* Properties of the owner listing's empty response.                       *)

\* C29: getUserOwnedProperties sends its "no properties owned" empty
\* response only to a tenant who owns no property, with total_items 0; a
\* tenant who owns a property and asks for a page beyond the last does not
\* get it.
C29_EmptyOnlyWithoutProperties ==
    ( /\ handler = "getUserOwnedProperties"
      /\ pc = "done"
      /\ Len(responses) = 1
      /\ responses[1].kind = "empty" )
    => /\ responses[1].data[1].pagination.total_items = 0
       /\ \A x \in properties : x.tenant_id # query.user

====
